---- MODULE Spec2Model ----
(***************************************************************************)
(* Policy-gate subsystem of terraform-mcp-eva: the tflint and conftest     *)
(* scanners, their temp-directory lifecycle, parameter validation, policy  *)
(* source resolution and command composition.                              *)
(*                                                                         *)
(* Strings the code only passes along are TLC strings.  Strings the code   *)
(* inspects (ignored-policy namespaces, remote config URLs) are sequences  *)
(* of tokens: a token is a fragment that holds no "/" unless it is "/" or  *)
(* "//" itself.  A path is the sequence of its components below the root.  *)
(***************************************************************************)
EXTENDS Integers, Sequences, FiniteSets, TLC

(* ------------------------------ bounds --------------------------------- *)
\* Longest ignored_policies list drawn as an input.
MaxIgnored == 2
\* Longest policy_urls list drawn as an input.
MaxUrls == 2
\* Number of random suffixes TempDir can draw.
NumSuffix == 2

Scans == {1, 2}

(* --------------------------- strings and paths -------------------------- *)
RECURSIVE Concat(_)
\* The string a token sequence spells.
Concat(toks) == IF toks = <<>> THEN "" ELSE Head(toks) \o Concat(Tail(toks))

\* A token left in the case it has.
SameCaseTok(t) == t

\* strings.ToLower on one token.
LowerTok(t) ==
    CASE t = "APRL" -> "aprl"
      [] t = "LIB" -> "lib"
      [] t = ".REGO" -> ".rego"
      [] t = "Avmsec" -> "avmsec"
      [] t = "X" -> "x"
      [] t = "ERROR" -> "error"
      [] t = "Warning" -> "warning"
      [] t = "INFO" -> "info"
      [] OTHER -> t

\* strings.ToLower.
ToLower(toks) == [i \in 1..Len(toks) |-> LowerTok(toks[i])]

RECURSIVE SplitSlash(_, _)
\* The "/"-separated segments of a token sequence, each as a string;
\* cur is the segment being read.
SplitSlash(toks, cur) ==
    IF toks = <<>> THEN <<cur>>
    ELSE IF Head(toks) = "/" THEN <<cur>> \o SplitSlash(Tail(toks), "")
    ELSE IF Head(toks) = "//" THEN <<cur, "">> \o SplitSlash(Tail(toks), "")
    ELSE SplitSlash(Tail(toks), cur \o Head(toks))

RECURSIVE Clean(_, _)
\* filepath.Clean of a rooted path: acc is the cleaned prefix, rest the
\* components still to read.  "" and "." vanish, ".." drops the last
\* component (and is dropped itself at the root).
Clean(acc, rest) ==
    IF rest = <<>> THEN acc
    ELSE LET c == Head(rest) IN
         IF c = "" \/ c = "." THEN Clean(acc, Tail(rest))
         ELSE IF c = ".." THEN
              Clean(IF acc = <<>> THEN acc ELSE SubSeq(acc, 1, Len(acc) - 1), Tail(rest))
         ELSE Clean(Append(acc, c), Tail(rest))

\* filepath.Join(dir, elem): dir is a clean rooted path, elem a token string.
Join(dir, elem) == Clean(<<>>, dir \o SplitSlash(elem, ""))

IsPrefix(p, q) == Len(p) <= Len(q) /\ SubSeq(q, 1, Len(p)) = p

\* The path as the string the command line carries.
RECURSIVE PathStr(_)
PathStr(p) == IF p = <<>> THEN "" ELSE "/" \o Head(p) \o PathStr(Tail(p))

(* ------------------------------ filesystem ------------------------------ *)
\* A filesystem is a function from the existing paths to "dir" or "file".
Exists(f, p) == p \in DOMAIN f
IsDir(f, p) == Exists(f, p) /\ f[p] = "dir"

Prefixes(p) == {SubSeq(p, 1, n) : n \in 1..Len(p)}

\* fs.MkdirAll succeeds unless a prefix of p is a file.
MkdirAllOk(f, p) == \A q \in Prefixes(p) : Exists(f, q) => f[q] = "dir"
MkdirAll(f, p) ==
    [q \in DOMAIN f \cup Prefixes(p) |-> IF q \in DOMAIN f THEN f[q] ELSE "dir"]

\* afero.WriteFile succeeds when the parent is a directory and p is no directory.
WriteFileOk(f, p) ==
    /\ Len(p) > 1 => IsDir(f, SubSeq(p, 1, Len(p) - 1))
    /\ ~IsDir(f, p)
WriteFile(f, p) == [q \in DOMAIN f \cup {p} |-> IF q = p THEN "file" ELSE f[q]]

\* Files written below (or at) a base.
WriteFiles(f, ps) == [q \in DOMAIN f \cup ps |-> IF q \in ps THEN "file" ELSE f[q]]

\* fs.RemoveAll: p and everything below it.
RemoveAll(f, p) == [q \in {r \in DOMAIN f : ~IsPrefix(p, r)} |-> f[q]]

\* os.TempDir().
TmpRoot == <<"tmp">>

\* The names afero.TempDir can give a directory: prefix plus a random suffix,
\* under dir (the system temp directory when dir is empty), not yet existing.
TempDirChoices(f, dir, prefix) ==
    {Append(IF dir = <<>> THEN TmpRoot ELSE dir, prefix \o ToString(r)) :
        r \in 1..NumSuffix} \ DOMAIN f

\* The files and directories present before any scan.
PlanFile == <<"w", "plan.json">>
PlanDir == <<"w", "tf">>
MissingPath == <<"w", "missing">>
InitialFs ==
    [q \in {<<"tmp">>, <<"w">>, PlanFile, PlanDir} |->
        IF q = PlanFile THEN "file" ELSE "dir"]

VARIABLES
    fsys,       \* the filesystem
    pc,         \* each scan's position
    tool,       \* each scan's tool: "conftest", "tflint" or "none"
    param,      \* each scan's parameter record
    ws,         \* each scan's temp directory (<<>> before it is created)
    deferred,   \* whether the scan's deferred cleanup is registered
    created,    \* every path the scan created or wrote
    touched,    \* every path the scan read, wrote or removed
    fetched,    \* the URLs handed to the remote getter, in order
    todo,       \* conftest: the policy URLs still to download
    sources,    \* conftest: the policy sources resolved so far
    cmds,       \* the commands handed to the command executor, in order
    ret,        \* what the scan returned
    fnCall,     \* the pure function applied last, with its arguments
    fnOut       \* and its result

vars == <<fsys, pc, tool, param, ws, deferred, created, touched, fetched, todo,
          sources, cmds, ret, fnCall, fnOut>>

scanVars == <<fsys, pc, tool, param, ws, deferred, created, touched, fetched, todo,
              sources, cmds, ret>>

(* ------------------------ conftest: parameters -------------------------- *)
AprlUrl == "git::https://github.com/Azure/policy-library-avm.git//policy/Azure-Proactive-Resiliency-Library-v2"
AvmsecUrl == "git::https://github.com/Azure/policy-library-avm.git//policy/avmsec"
DefaultAVMExceptionsURL == "https://raw.githubusercontent.com/Azure/policy-library-avm/refs/heads/main/policy/avmsec/avm_exceptions.rego.bak"

\* The alias table with the two libraries of "all" in the other order.
predefinedPolicyConfigsSwapped ==
    [a \in {"aprl", "avmsec", "all"} |->
        CASE a = "aprl" -> <<AprlUrl>>
          [] a = "avmsec" -> <<AvmsecUrl>>
          [] a = "all" -> <<AvmsecUrl, AprlUrl>>]

\* predefinedPolicyConfigs: the alias table.
predefinedPolicyConfigs ==
    [a \in {"aprl", "avmsec", "all"} |->
        CASE a = "aprl" -> <<AprlUrl>>
          [] a = "avmsec" -> <<AvmsecUrl>>
          [] a = "all" -> <<AprlUrl, AvmsecUrl>>]

MutualExclusiveMsg == "predefined_policy_library_alias and policy_urls are mutually exclusive"

\* IgnoredPolicy.Validate looking at the name before the namespace.
IgnoredPolicyValidateNameFirst(p) ==
    IF p.name = "" THEN "name is required"
    ELSE IF p.namespace = <<>> THEN "namespace is required"
    ELSE ""

\* IgnoredPolicy.Validate: "" is a nil error.
IgnoredPolicyValidate(p) ==
    IF p.namespace = <<>> THEN "namespace is required"
    ELSE IF p.name = "" THEN "name is required"
    ELSE ""

RECURSIVE ValidateIgnoredFrom(_, _)
\* The loop over IgnoredPolicies from (1-based) position i: the first error,
\* prefixed with the entry's 0-based index.
ValidateIgnoredFrom(list, i) ==
    IF i > Len(list) THEN ""
    ELSE LET err == IgnoredPolicyValidate(list[i]) IN
         IF err # "" THEN "ignored_policies[" \o ToString(i - 1) \o "]: " \o err
         ELSE ValidateIgnoredFrom(list, i + 1)

\* ConftestScanParam.Validate.
Validate(p) ==
    IF p.alias # "" /\ Len(p.policyUrls) > 0 THEN MutualExclusiveMsg
    ELSE IF p.targetFile = <<>> THEN "plan_file is required"
    ELSE IF p.alias # "" /\ p.alias \notin {"aprl", "avmsec", "all"}
         THEN "invalid predefined_policy_library_alias"
    ELSE ValidateIgnoredFrom(p.ignoredPolicies, 1)

\* validateTargetPlan without the directory test.
validateTargetPlanAnyKind(f, planFile) ==
    IF ~Exists(f, planFile) THEN "plan file does not exist"
    ELSE ""

\* validateTargetPlan.
validateTargetPlan(f, planFile) ==
    IF ~Exists(f, planFile) THEN "plan file does not exist"
    ELSE IF IsDir(f, planFile) THEN "plan path is not a file"
    ELSE ""

\* resolvePolicyUrls (config.go): the URLs, or an error.
resolvePolicyUrls(predefinedAlias, customUrls) ==
    IF predefinedAlias # "" /\ Len(customUrls) > 0
    THEN [urls |-> <<>>, err |-> "predefined_policy_library_alias and custom_urls are mutually exclusive"]
    ELSE IF Len(customUrls) > 0 THEN [urls |-> customUrls, err |-> ""]
    ELSE IF predefinedAlias # ""
    THEN IF predefinedAlias \in DOMAIN predefinedPolicyConfigs
         THEN [urls |-> predefinedPolicyConfigs[predefinedAlias], err |-> ""]
         ELSE [urls |-> <<>>, err |-> "invalid predefined_policy_library_alias: " \o predefinedAlias]
    ELSE [urls |-> predefinedPolicyConfigs["all"], err |-> ""]

\* resolvePredefinedPolicyLibrary.
resolvePredefinedPolicyLibrary(alias) ==
    IF alias \in DOMAIN predefinedPolicyConfigs
    THEN [urls |-> predefinedPolicyConfigs[alias], err |-> ""]
    ELSE [urls |-> <<>>, err |-> "invalid predefined_policy_library_alias: " \o alias]

\* The head of resolvePolicySources: allUrls, or the resolution error.
AllUrls(p) ==
    LET pre == IF p.alias # "" THEN resolvePredefinedPolicyLibrary(p.alias)
               ELSE [urls |-> <<>>, err |-> ""]
        all == pre.urls \o p.policyUrls
    IN  IF pre.err # ""
        THEN [urls |-> <<>>, err |-> "predefined policy library resolution failed: " \o pre.err]
        ELSE IF Len(all) = 0 THEN resolvePredefinedPolicyLibrary("all")
        ELSE [urls |-> all, err |-> ""]

(* ------------------------ conftest: the command ------------------------- *)
RECURSIVE JoinSpace(_)
\* strings.Join(parts, " "): each part is a token string.
JoinSpace(parts) ==
    IF parts = <<>> THEN <<>>
    ELSE IF Len(parts) = 1 THEN Head(parts)
    ELSE Head(parts) \o <<" ">> \o JoinSpace(Tail(parts))

RECURSIVE Fields(_, _)
\* strings.Fields: the maximal runs between " " tokens, each as a string;
\* cur is the run being read.
Fields(toks, cur) ==
    IF toks = <<>> THEN (IF cur = "" THEN <<>> ELSE <<cur>>)
    ELSE IF Head(toks) = " "
         THEN (IF cur = "" THEN <<>> ELSE <<cur>>) \o Fields(Tail(toks), "")
    ELSE Fields(Tail(toks), cur \o Head(toks))

RECURSIVE NamespaceFlagsAndAll(_)
\* The --namespace flags with --all-namespaces after them all the same.
NamespaceFlagsAndAll(namespaces) ==
    IF namespaces = <<>> THEN << <<"--all-namespaces">> >>
    ELSE << <<"--namespace">>, Head(namespaces) >> \o NamespaceFlagsAndAll(Tail(namespaces))

RECURSIVE NamespaceFlags(_)
NamespaceFlags(namespaces) ==
    IF namespaces = <<>> THEN <<>>
    ELSE << <<"--namespace">>, Head(namespaces) >> \o NamespaceFlags(Tail(namespaces))

RECURSIVE PolicyFlagsReversed(_)
\* The -p flags, last source first.
PolicyFlagsReversed(policySources) ==
    IF policySources = <<>> THEN <<>>
    ELSE PolicyFlagsReversed(Tail(policySources))
         \o << <<"-p">>, <<PathStr(Head(policySources).resolvedPath)>> >>

RECURSIVE PolicyFlags(_)
PolicyFlags(policySources) ==
    IF policySources = <<>> THEN <<>>
    ELSE << <<"-p">>, <<PathStr(Head(policySources).resolvedPath)>> >>
         \o PolicyFlags(Tail(policySources))

\* buildConftestCommand: the command string, as tokens.
buildConftestCommand(planFile, policySources, namespaces) ==
    JoinSpace(
        << <<"conftest">>, <<"test">>, <<"--no-color">>, <<"-o">>, <<"json">> >>
        \o (IF Len(namespaces) > 0 THEN NamespaceFlags(namespaces)
            ELSE << <<"--all-namespaces">> >>)
        \o PolicyFlags(policySources)
        \o << <<PathStr(planFile)>> >>)

\* RealCommandExecutor.ExecuteCommand: the argument vector the binary receives.
Argv(command) == Fields(command, "")

(* ----------------------- conftest: ignore config ------------------------ *)
\* The namespaces of a list, each once.
NamespacesOf(ignoredPolicies) ==
    {ignoredPolicies[i].namespace : i \in 1..Len(ignoredPolicies)}

\* namespaceDir of createIgnoreConfig.
NamespaceDir(tempDir, namespace) ==
    Join(tempDir, <<"exceptions_">> \o ToLower(namespace))

\* exceptionPath of createIgnoreConfig.
ExceptionPath(tempDir, namespace) ==
    Join(NamespaceDir(tempDir, namespace),
         <<"exceptions_">> \o ToLower(namespace) \o <<".rego">>)

\* The orders in which Go may range over the namespaceRules map.
Orders(S) == {o \in [1..Cardinality(S) -> S] : \A i, j \in DOMAIN o : i # j => o[i] # o[j]}

(* --------------------------- scan bookkeeping --------------------------- *)
NoParam == [none |-> TRUE]
\* No result: Scan returned nil for it, or has not returned.
NoResult == [none |-> TRUE]

\* What Scan returned: the error as the parts of its message (<<>> is a nil
\* error), and the result when it is not nil.
NoRet == [kind |-> "none", err |-> <<>>, hasResult |-> FALSE, result |-> NoResult]
ErrRet(msg) == [kind |-> "error", err |-> msg, hasResult |-> FALSE, result |-> NoResult]
PanicRet == [kind |-> "panic", err |-> <<>>, hasResult |-> FALSE, result |-> NoResult]
OkRet(r) == [kind |-> "ok", err |-> <<>>, hasResult |-> TRUE, result |-> r]

\* Scan returned both a result and an error.
ErrRetWith(msg, r) == [kind |-> "error", err |-> msg, hasResult |-> TRUE, result |-> r]

(* ----------------------------- tool output ------------------------------ *)
\* Texts an external tool can write to its stdout.
EmptyOut == ""
GarbageOut == "Error: command failed"
ObjectOut == "{}"
ArrayOut == "[]"
ConftestPassOut == "[{\"filename\":\"plan.json\",\"namespace\":\"main\",\"successes\":3}]"
ConftestFailOut ==
    "[{\"filename\":\"plan.json\",\"namespace\":\"avmsec\",\"successes\":1,"
    \o "\"failures\":[{\"msg\":\"avmsec/r1: 'azurerm_storage_account.sa' must use https\"},{\"msg\":\"plain\"}],"
    \o "\"warnings\":[{\"msg\":\"main/w1: deprecated\"}]}]"
TflintCleanOut == "{\"issues\":[],\"errors\":[]}"
TflintKnownOut ==
    "{\"issues\":[{\"rule\":{\"name\":\"r1\",\"severity\":\"ERROR\"},\"message\":\"m1\","
    \o "\"range\":{\"filename\":\"main.tf\",\"start\":{\"line\":1,\"column\":1},\"end\":{\"line\":1,\"column\":9}}},"
    \o "{\"rule\":{\"name\":\"r2\",\"severity\":\"warning\"},\"message\":\"m2\"}],"
    \o "\"errors\":[{\"message\":\"e1\"}]}"
TflintNoticeOut ==
    "{\"issues\":[{\"rule\":{\"name\":\"r3\",\"severity\":\"notice\"},\"message\":\"m3\"},"
    \o "{\"rule\":{\"name\":\"r4\",\"severity\":\"info\"},\"message\":\"m4\"}],\"errors\":[]}"

\* The zero value of a range.
ZeroRange ==
    [filename |-> "", start |-> [line |-> 0, column |-> 0], end |-> [line |-> 0, column |-> 0]]

\* json.Unmarshal into a RawOutput, on the texts above: an array of namespace
\* results decodes, absent fields taking their zero values; any other text is
\* an error.  Messages are kept as tokens.
UnmarshalRawOutput(text) ==
    CASE text = ArrayOut -> [ok |-> TRUE, value |-> <<>>]
      [] text = ConftestPassOut ->
            [ok |-> TRUE,
             value |-> << [filename |-> "plan.json", namespace |-> "main", successes |-> 3,
                           failures |-> <<>>, warnings |-> <<>>] >>]
      [] text = ConftestFailOut ->
            [ok |-> TRUE,
             value |-> << [filename |-> "plan.json", namespace |-> "avmsec", successes |-> 1,
                           failures |-> << <<"avmsec", "/", "r1", ":", " ", "'", "azurerm_",
                                             "storage_account", ".", "sa", "'", " must use https">>,
                                           <<"plain">> >>,
                           warnings |-> << <<"main", "/", "w1", ":", " ", "deprecated">> >>] >>]
      [] OTHER -> [ok |-> FALSE, value |-> <<>>]

\* json.Unmarshal into an Output, on the texts above: an object decodes,
\* absent fields taking their zero values; any other text is an error.
UnmarshalOutput(text) ==
    CASE text = ObjectOut -> [ok |-> TRUE, value |-> [issues |-> <<>>, errors |-> <<>>]]
      [] text = TflintCleanOut -> [ok |-> TRUE, value |-> [issues |-> <<>>, errors |-> <<>>]]
      [] text = TflintKnownOut ->
            [ok |-> TRUE,
             value |-> [issues |-> << [name |-> "r1", severity |-> "ERROR", message |-> "m1",
                                       range |-> [filename |-> "main.tf",
                                                  start |-> [line |-> 1, column |-> 1],
                                                  end |-> [line |-> 1, column |-> 9]]],
                                      [name |-> "r2", severity |-> "warning", message |-> "m2",
                                       range |-> ZeroRange] >>,
                        errors |-> << [message |-> "e1", range |-> ZeroRange] >>]]
      [] text = TflintNoticeOut ->
            [ok |-> TRUE,
             value |-> [issues |-> << [name |-> "r3", severity |-> "notice", message |-> "m3",
                                       range |-> ZeroRange],
                                      [name |-> "r4", severity |-> "info", message |-> "m4",
                                       range |-> ZeroRange] >>,
                        errors |-> <<>>]]
      [] OTHER -> [ok |-> FALSE, value |-> [issues |-> <<>>, errors |-> <<>>]]

\* The message of the error json.Unmarshal returns for a text it rejects.
UnmarshalError(text) ==
    CASE text = EmptyOut -> "unexpected end of JSON input"
      [] text \in {ObjectOut, ArrayOut} -> "json: cannot unmarshal value into Go value"
      [] text = GarbageOut -> "invalid character 'E' looking for beginning of value"
      [] OTHER -> "invalid character looking for beginning of value"

\* strings.Index and strings.LastIndex of a one-token separator: the
\* position of the token, 0 when it is absent.
IndexOf(toks, t) ==
    IF \E i \in 1..Len(toks) : toks[i] = t
    THEN CHOOSE i \in 1..Len(toks) : toks[i] = t /\ \A j \in 1..(i - 1) : toks[j] # t
    ELSE 0

LastIndexOf(toks, t) ==
    IF \E i \in 1..Len(toks) : toks[i] = t
    THEN CHOOSE i \in 1..Len(toks) : toks[i] = t /\ \A j \in (i + 1)..Len(toks) : toks[j] # t
    ELSE 0

RECURSIVE TrimSpace(_)
\* strings.TrimSpace.
TrimSpace(toks) ==
    IF toks = <<>> THEN <<>>
    ELSE IF Head(toks) = " " THEN TrimSpace(Tail(toks))
    ELSE IF toks[Len(toks)] = " " THEN TrimSpace(SubSeq(toks, 1, Len(toks) - 1))
    ELSE toks

\* extractRuleFromMessage keeping what follows the first slash.
extractRuleFromMessageFirstSlash(message) ==
    LET i == IndexOf(message, ":") IN
    IF i = 0 THEN "unknown"
    ELSE LET rulePart == TrimSpace(SubSeq(message, 1, i - 1))
             slashIndex == IndexOf(rulePart, "/")
         IN  IF slashIndex # 0
             THEN Concat(SubSeq(rulePart, slashIndex + 1, Len(rulePart)))
             ELSE Concat(rulePart)

\* extractRuleFromMessage.
extractRuleFromMessage(message) ==
    LET i == IndexOf(message, ":") IN
    IF i = 0 THEN "unknown"
    ELSE LET rulePart == TrimSpace(SubSeq(message, 1, i - 1))
             slashIndex == LastIndexOf(rulePart, "/")
         IN  IF slashIndex # 0
             THEN Concat(SubSeq(rulePart, slashIndex + 1, Len(rulePart)))
             ELSE Concat(rulePart)

\* extractResourceFromMessage.
extractResourceFromMessage(message) ==
    LET startQuote == IndexOf(message, "'")
        remaining == SubSeq(message, startQuote + 1, Len(message))
        endQuote == IndexOf(remaining, "'")
        resource == SubSeq(remaining, 1, endQuote - 1)
    IN  IF startQuote = 0 \/ endQuote = 0 THEN ""
        ELSE IF /\ IndexOf(resource, ".") # 0
                /\ \/ IndexOf(resource, "azurerm_") # 0
                   \/ \E i \in 1..(Len(resource) - 1) :
                         resource[i] = "module" /\ resource[i + 1] = "."
             THEN Concat(resource)
             ELSE ""

RECURSIVE Flatten(_)
\* The concatenation of a sequence of sequences.
Flatten(seqs) == IF seqs = <<>> THEN <<>> ELSE Head(seqs) \o Flatten(Tail(seqs))

\* parseConftestOutput: failures become violations, warnings become
\* warnings, namespace result by namespace result.
parseConftestOutput(output) ==
    LET raw == UnmarshalRawOutput(output)
        violationsOf(nr) ==
            [i \in 1..Len(nr.failures) |->
                [policy |-> nr.namespace,
                 rule |-> extractRuleFromMessage(nr.failures[i]),
                 message |-> Concat(nr.failures[i]),
                 namespace |-> nr.namespace, severity |-> "error",
                 resource |-> extractResourceFromMessage(nr.failures[i])]]
        warningsOf(nr) ==
            [i \in 1..Len(nr.warnings) |->
                [policy |-> nr.namespace,
                 rule |-> extractRuleFromMessage(nr.warnings[i]),
                 message |-> Concat(nr.warnings[i]),
                 namespace |-> nr.namespace,
                 resource |-> extractResourceFromMessage(nr.warnings[i])]]
    IN  IF ~raw.ok
        THEN [err |-> <<"failed to parse conftest output: ", UnmarshalError(output)>>,
              violations |-> <<>>, warnings |-> <<>>]
        ELSE [err |-> <<>>,
              violations |-> Flatten([k \in 1..Len(raw.value) |-> violationsOf(raw.value[k])]),
              warnings |-> Flatten([k \in 1..Len(raw.value) |-> warningsOf(raw.value[k])])]

\* The result with policies_run taken from the tool's JSON: the number of
\* namespace results it holds.
ConftestResultFromRaw(targetFile, policySources, parsed, output) ==
    [success |-> TRUE,
     targetFile |-> PathStr(targetFile),
     policySources |-> policySources,
     violations |-> parsed.violations,
     warnings |-> parsed.warnings,
     output |-> <<output>>,
     summary |-> [totalViolations |-> Len(parsed.violations),
                  errorCount |-> Len(parsed.violations),
                  warningCount |-> Len(parsed.warnings),
                  infoCount |-> 0,
                  policiesRun |-> Len(UnmarshalRawOutput(output).value)]]

\* The result Scan builds from the policy sources and the parsed output.
ConftestResult(targetFile, policySources, parsed, output) ==
    [success |-> TRUE,
     targetFile |-> PathStr(targetFile),
     policySources |-> policySources,
     violations |-> parsed.violations,
     warnings |-> parsed.warnings,
     output |-> <<output>>,
     summary |-> [totalViolations |-> Len(parsed.violations),
                  errorCount |-> Len(parsed.violations),
                  warningCount |-> Len(parsed.warnings),
                  infoCount |-> 0,
                  policiesRun |-> Len(policySources)]]

\* The zero ScanSummary.
ZeroSummary == [totalIssues |-> 0, errorCount |-> 0, warningCount |-> 0, infoCount |-> 0]

\* parseScanOutput: the result and the error; the output field as its parts.
parseScanOutput(jsonOutput, category, targetPath, initOutput) ==
    LET u == UnmarshalOutput(jsonOutput)
        raw == u.value
        fromIssues == [i \in 1..Len(raw.issues) |->
                         [rule |-> raw.issues[i].name, severity |-> raw.issues[i].severity,
                          message |-> raw.issues[i].message, range |-> raw.issues[i].range]]
        fromErrors == [i \in 1..Len(raw.errors) |->
                         [rule |-> "tflint_error", severity |-> "error",
                          message |-> raw.errors[i].message, range |-> raw.errors[i].range]]
        issues == fromIssues \o fromErrors
        countOf(sev) == Cardinality({i \in 1..Len(fromIssues) :
                                        LowerTok(fromIssues[i].severity) = sev})
    IN  IF ~u.ok
        THEN [err |-> <<"failed to parse TFLint output: ", UnmarshalError(jsonOutput)>>,
              result |-> [success |-> FALSE, category |-> category, targetPath |-> targetPath,
                          issues |-> <<>>,
                          output |-> <<"Init: ", initOutput, "\nParse Error: ",
                                       UnmarshalError(jsonOutput)>>,
                          summary |-> ZeroSummary]]
        ELSE [err |-> <<>>,
              result |-> [success |-> TRUE, category |-> category, targetPath |-> targetPath,
                          issues |-> issues,
                          output |-> <<"Init: ", initOutput, "\nScan: ", jsonOutput>>,
                          summary |-> [totalIssues |-> Len(issues),
                                       errorCount |-> countOf("error") + Len(fromErrors),
                                       warningCount |-> countOf("warning"),
                                       infoCount |-> countOf("info")]]]

(* --------------------------- the JSON encoding -------------------------- *)
\* json.Marshal, as the tokens of the text it writes: punctuation, object
\* keys, and string, number and literal values.
JPunct(c) == [k |-> "punct", v |-> c]
JKey(name) == [k |-> "key", v |-> name]
JString(str) == [k |-> "string", v |-> str]
JNumber(n) == [k |-> "number", v |-> ToString(n)]
JBool(b) == [k |-> "literal", v |-> IF b THEN "true" ELSE "false"]
JNull == [k |-> "literal", v |-> "null"]

RECURSIVE JoinComma(_)
JoinComma(items) ==
    IF items = <<>> THEN <<>>
    ELSE IF Len(items) = 1 THEN Head(items)
    ELSE Head(items) \o <<JPunct(",")>> \o JoinComma(Tail(items))

JObject(members) == <<JPunct("{")>> \o JoinComma(members) \o <<JPunct("}")>>
JArray(items) == <<JPunct("[")>> \o JoinComma(items) \o <<JPunct("]")>>

\* A slice without omitempty: null when nil.
JSlice(items) == IF items = <<>> THEN <<JNull>> ELSE JArray(items)

\* PolicySource encoded with its internal fields as well.
EncodePolicySourceInternal(src) ==
    JObject(<< <<JKey("original_url"), JString(src.originalUrl)>>,
               <<JKey("resolved_path"), JString(PathStr(src.resolvedPath))>>,
               <<JKey("type"), JString(src.type)>>,
               <<JKey("policy_count"), JNumber(src.policyCount)>> >>)

\* PolicySource encoded with its type as well.
EncodePolicySourceTyped(src) ==
    JObject(<< <<JKey("original_url"), JString(src.originalUrl)>>,
               <<JKey("type"), JString(src.type)>>,
               <<JKey("policy_count"), JNumber(src.policyCount)>> >>)

\* PolicySource: resolved_path and type carry the tag "-".
EncodePolicySource(src) ==
    JObject(<< <<JKey("original_url"), JString(src.originalUrl)>>,
               <<JKey("policy_count"), JNumber(src.policyCount)>> >>)

\* PolicyViolation; resource is omitempty.
EncodeViolation(v) ==
    JObject(<< <<JKey("policy"), JString(v.policy)>>,
               <<JKey("rule"), JString(v.rule)>>,
               <<JKey("message"), JString(v.message)>>,
               <<JKey("namespace"), JString(v.namespace)>>,
               <<JKey("severity"), JString(v.severity)>> >>
            \o (IF v.resource # "" THEN << <<JKey("resource"), JString(v.resource)>> >>
                ELSE <<>>))

\* PolicyWarning; resource is omitempty.
EncodeWarning(w) ==
    JObject(<< <<JKey("policy"), JString(w.policy)>>,
               <<JKey("rule"), JString(w.rule)>>,
               <<JKey("message"), JString(w.message)>>,
               <<JKey("namespace"), JString(w.namespace)>> >>
            \o (IF w.resource # "" THEN << <<JKey("resource"), JString(w.resource)>> >>
                ELSE <<>>))

\* The conftest ScanResult; violations and warnings are omitempty.
EncodeConftestResult(r) ==
    JObject(<< <<JKey("success"), JBool(r.success)>>,
               <<JKey("plan_file"), JString(r.targetFile)>>,
               <<JKey("policy_sources")>>
                  \o JSlice([i \in 1..Len(r.policySources) |->
                                EncodePolicySource(r.policySources[i])]) >>
            \o (IF r.violations # <<>>
                THEN << <<JKey("violations")>>
                          \o JArray([i \in 1..Len(r.violations) |->
                                        EncodeViolation(r.violations[i])]) >>
                ELSE <<>>)
            \o (IF r.warnings # <<>>
                THEN << <<JKey("warnings")>>
                          \o JArray([i \in 1..Len(r.warnings) |->
                                        EncodeWarning(r.warnings[i])]) >>
                ELSE <<>>)
            \o << <<JKey("output"), JString(Concat(r.output))>>,
                  <<JKey("summary")>>
                     \o JObject(<< <<JKey("total_violations"), JNumber(r.summary.totalViolations)>>,
                                   <<JKey("error_count"), JNumber(r.summary.errorCount)>>,
                                   <<JKey("warning_count"), JNumber(r.summary.warningCount)>>,
                                   <<JKey("info_count"), JNumber(r.summary.infoCount)>>,
                                   <<JKey("policies_run"), JNumber(r.summary.policiesRun)>> >>) >>)

EncodePoint(pt) ==
    JObject(<< <<JKey("line"), JNumber(pt.line)>>, <<JKey("column"), JNumber(pt.column)>> >>)

\* Issue, with its Range.
EncodeIssue(issue) ==
    JObject(<< <<JKey("rule"), JString(issue.rule)>>,
               <<JKey("severity"), JString(issue.severity)>>,
               <<JKey("message"), JString(issue.message)>>,
               <<JKey("range")>>
                  \o JObject(<< <<JKey("filename"), JString(issue.range.filename)>>,
                                <<JKey("start")>> \o EncodePoint(issue.range.start),
                                <<JKey("end")>> \o EncodePoint(issue.range.end) >>) >>)

\* The tflint ScanResult; issues is omitempty.
EncodeTflintResult(r) ==
    JObject(<< <<JKey("success"), JBool(r.success)>>,
               <<JKey("category"), JString(r.category)>>,
               <<JKey("target_path"), JString(r.targetPath)>> >>
            \o (IF r.issues # <<>>
                THEN << <<JKey("issues")>>
                          \o JArray([i \in 1..Len(r.issues) |-> EncodeIssue(r.issues[i])]) >>
                ELSE <<>>)
            \o << <<JKey("output"), JString(Concat(r.output))>>,
                  <<JKey("summary")>>
                     \o JObject(<< <<JKey("total_issues"), JNumber(r.summary.totalIssues)>>,
                                   <<JKey("error_count"), JNumber(r.summary.errorCount)>>,
                                   <<JKey("warning_count"), JNumber(r.summary.warningCount)>>,
                                   <<JKey("info_count"), JNumber(r.summary.infoCount)>> >>) >>)

\* What a remote getter or an external command can do.
GetterOutcomes == {"ok", "err", "panic"}

\* The errors go-getter can return for a URL: one that names the URL, one
\* that does not.
GetterErrors(url) == { <<"connection refused">>, <<"error downloading ", url>> }

\* What a download can leave in its destination directory: file names, as tokens.
DownloadContents ==
    { {<<"main", ".rego">>, <<"LIB", ".REGO">>, <<"readme", ".md">>} }

\* countPolicyFiles over a freshly downloaded directory holding these names.
countPolicyFiles(content) ==
    Cardinality({n \in content : ToLower(n)[Len(n)] = ".rego"})

Below(f, p) == {q \in DOMAIN f : IsPrefix(p, q)}

\* The scan returns without anything to unwind.
ReturnNow(s, r) ==
    /\ pc' = [pc EXCEPT ![s] = "done"]
    /\ ret' = [ret EXCEPT ![s] = r]

\* The scan leaves its body with r pending; deferred calls run next.
Leave(s, r) ==
    /\ pc' = [pc EXCEPT ![s] = "unwind"]
    /\ ret' = [ret EXCEPT ![s] = r]

(* ------------------------------ conftest Scan --------------------------- *)
\* Where resolvePolicySources goes once every URL is downloaded.
AfterDefaults(p) == IF Len(p.ignoredPolicies) > 0 THEN "c_ignore" ELSE "c_exec"
\* The default exceptions downloaded whatever the flag says.
AfterDownloadsAlways(p) == "c_defaults"
AfterDownloads(p) == IF p.includeDefault THEN "c_defaults" ELSE AfterDefaults(p)

\* Scan, up to the temp directory: Validate and validateTargetPlan.
ConftestCall(s, P) ==
    /\ pc[s] = "idle"
    /\ \E p \in P :
        LET verr == Validate(p)
            terr == IF verr = "" THEN validateTargetPlan(fsys, p.targetFile) ELSE ""
        IN  /\ tool' = [tool EXCEPT ![s] = "conftest"]
            /\ param' = [param EXCEPT ![s] = p]
            /\ touched' = [touched EXCEPT ![s] =
                              IF verr = "" THEN @ \cup {p.targetFile} ELSE @]
            /\ IF verr # "" THEN ReturnNow(s, ErrRet(<<"parameter validation failed: ", verr>>))
               ELSE IF terr # "" THEN ReturnNow(s, ErrRet(<<"plan file validation failed: ", terr>>))
               ELSE pc' = [pc EXCEPT ![s] = "c_tempdir"] /\ ret' = ret
    /\ UNCHANGED <<fsys, ws, deferred, created, fetched, todo, sources, cmds, fnCall, fnOut>>

\* afero.TempDir, defer fs.RemoveAll(tempDir), and the head of resolvePolicySources.
ConftestTempDir(s) ==
    /\ pc[s] = "c_tempdir"
    /\ \/ /\ ReturnNow(s, ErrRet(<<"failed to create temp directory">>))
          /\ UNCHANGED <<fsys, ws, deferred, created, touched, todo>>
       \/ \E d \in TempDirChoices(fsys, <<>>, "conftest-scan-") :
            LET all == AllUrls(param[s]) IN
            /\ fsys' = MkdirAll(fsys, d)
            /\ ws' = [ws EXCEPT ![s] = d]
            /\ deferred' = [deferred EXCEPT ![s] = TRUE]
            /\ created' = [created EXCEPT ![s] = @ \cup {d}]
            /\ touched' = [touched EXCEPT ![s] = @ \cup {d}]
            /\ IF all.err # ""
               THEN /\ Leave(s, ErrRet(<<"policy source resolution failed: ", all.err>>))
                    /\ todo' = todo
               ELSE /\ todo' = [todo EXCEPT ![s] = all.urls]
                    /\ pc' = [pc EXCEPT ![s] = "c_download"]
                    /\ ret' = ret
    /\ UNCHANGED <<tool, param, fetched, sources, cmds, fnCall, fnOut>>

\* One turn of the download loop: downloadPolicySource on the next URL.
ConftestDownload(s) ==
    /\ pc[s] = "c_download"
    /\ todo[s] # <<>>
    /\ LET url == Head(todo[s]) IN
       \/ /\ Leave(s, ErrRet(<<"policy source resolution failed: failed to download policy source ", url, ": failed to create policy directory">>))
          /\ UNCHANGED <<fsys, created, touched, fetched, todo, sources>>
       \/ \E d \in TempDirChoices(fsys, ws[s], "policy-"), o \in GetterOutcomes :
            \E content \in IF o = "ok" THEN DownloadContents ELSE {{}} :
            LET files == {Append(d, Concat(n)) : n \in content} IN
            /\ fsys' = WriteFiles(MkdirAll(fsys, d), files)
            /\ created' = [created EXCEPT ![s] = @ \cup {d} \cup files]
            /\ touched' = [touched EXCEPT ![s] = @ \cup {d} \cup files]
            /\ fetched' = [fetched EXCEPT ![s] = Append(@, url)]
            /\ CASE o = "ok" ->
                    /\ sources' = [sources EXCEPT ![s] = Append(@,
                            [originalUrl |-> url, resolvedPath |-> d,
                             type |-> "directory", policyCount |-> countPolicyFiles(content)])]
                    /\ todo' = [todo EXCEPT ![s] = Tail(@)]
                    /\ pc' = [pc EXCEPT ![s] =
                                 IF Tail(todo[s]) # <<>> THEN "c_download"
                                 ELSE AfterDownloads(param[s])]
                    /\ ret' = ret
                 [] o = "err" ->
                    /\ \E e \in GetterErrors(url) :
                         Leave(s, ErrRet(<<"policy source resolution failed: ",
                                           "failed to download policy source ", url, ": ",
                                           "failed to download policy from ", url, ": ",
                                           "go-getter GetAny failed for URL ", url, ": ">> \o e))
                    /\ UNCHANGED <<sources, todo>>
                 [] o = "panic" ->
                    /\ Leave(s, PanicRet)
                    /\ UNCHANGED <<sources, todo>>
    /\ UNCHANGED <<tool, param, ws, deferred, cmds, fnCall, fnOut>>

\* downloadDefaultAVMExceptions.
ConftestDefaultExceptions(s) ==
    /\ pc[s] = "c_defaults"
    /\ LET exceptionsDir == Join(ws[s], <<"default_exceptions">>)
           exceptionsFilePath == Join(exceptionsDir, <<"avmsec_exceptions.rego">>)
       IN
       \/ /\ Leave(s, ErrRet(<<"policy source resolution failed: failed to download default AVM exceptions: failed to create default exceptions directory">>))
          /\ UNCHANGED <<fsys, created, touched, fetched, sources>>
       \/ /\ MkdirAllOk(fsys, exceptionsDir)
          /\ \E o \in GetterOutcomes :
               LET files == IF o = "ok" THEN {exceptionsFilePath} ELSE {} IN
               /\ fsys' = WriteFiles(MkdirAll(fsys, exceptionsDir), files)
               /\ created' = [created EXCEPT ![s] = @ \cup {exceptionsDir} \cup files]
               /\ touched' = [touched EXCEPT ![s] = @ \cup {exceptionsDir} \cup files]
               /\ fetched' = [fetched EXCEPT ![s] = Append(@, DefaultAVMExceptionsURL)]
               /\ CASE o = "ok" ->
                       /\ sources' = [sources EXCEPT ![s] = Append(@,
                               [originalUrl |-> DefaultAVMExceptionsURL,
                                resolvedPath |-> exceptionsDir,
                                type |-> "directory", policyCount |-> 1])]
                       /\ pc' = [pc EXCEPT ![s] = AfterDefaults(param[s])]
                       /\ ret' = ret
                    [] o = "err" ->
                       /\ \E e \in GetterErrors(DefaultAVMExceptionsURL) :
                            Leave(s, ErrRet(<<"policy source resolution failed: ",
                                              "failed to download default AVM exceptions: ",
                                              "failed to download default AVM exceptions from ",
                                              DefaultAVMExceptionsURL, ": ",
                                              "go-getter GetAny failed for URL ",
                                              DefaultAVMExceptionsURL, ": ">> \o e))
                       /\ UNCHANGED sources
                    [] o = "panic" ->
                       /\ Leave(s, PanicRet)
                       /\ UNCHANGED sources
    /\ UNCHANGED <<tool, param, ws, deferred, todo, cmds, fnCall, fnOut>>

RECURSIVE IgnoreRun(_, _, _, _, _, _)
\* The loop of createIgnoreConfig over the namespaces in the order the map
\* yields them, from position i.  An I/O failure may strike at position
\* failAt (0: none), in MkdirAll (failOp "mkdir") or in writeFile ("write").
\* Yields the filesystem, the directories returned so far, whether an error
\* ended the loop, and what was created.
IgnoreRun(f, tempDir, order, i, failAt, failOp) ==
    IF i > Len(order) THEN [fs |-> f, paths |-> <<>>, failed |-> FALSE, made |-> {}]
    ELSE LET namespaceDir == NamespaceDir(tempDir, order[i])
             exceptionPath == ExceptionPath(tempDir, order[i])
             f1 == MkdirAll(f, namespaceDir)
             newDirs == Prefixes(namespaceDir) \ DOMAIN f
         IN  IF ~MkdirAllOk(f, namespaceDir) \/ (i = failAt /\ failOp = "mkdir")
             THEN [fs |-> f, paths |-> <<>>, failed |-> TRUE, made |-> {}]
             ELSE IF ~WriteFileOk(f1, exceptionPath) \/ (i = failAt /\ failOp = "write")
             THEN [fs |-> f1, paths |-> <<>>, failed |-> TRUE, made |-> newDirs]
             ELSE LET rest == IgnoreRun(WriteFile(f1, exceptionPath), tempDir, order,
                                        i + 1, failAt, failOp)
                  IN  [fs |-> rest.fs,
                       paths |-> <<namespaceDir>> \o rest.paths,
                       failed |-> rest.failed,
                       made |-> newDirs \cup {exceptionPath} \cup rest.made]

\* createIgnoreConfig.
createIgnoreConfig(f, ignoredPolicies, tempDir, order, failAt, failOp) ==
    IgnoreRun(f, tempDir, order, 1, failAt, failOp)

\* The tail of resolvePolicySources: createIgnoreConfig and its sources.
ConftestIgnoreConfig(s) ==
    /\ pc[s] = "c_ignore"
    /\ \E order \in Orders(NamespacesOf(param[s].ignoredPolicies)) :
       \E failAt \in 0..Len(order) :
       \E failOp \in IF failAt = 0 THEN {"none"} ELSE {"mkdir", "write"} :
         LET r == createIgnoreConfig(fsys, param[s].ignoredPolicies, ws[s], order, failAt, failOp)
         IN  /\ fsys' = r.fs
             /\ created' = [created EXCEPT ![s] = @ \cup r.made]
             /\ touched' = [touched EXCEPT ![s] = @ \cup r.made]
             /\ IF r.failed
                THEN /\ Leave(s, ErrRet(<<"policy source resolution failed: failed to create ignore config">>))
                     /\ UNCHANGED sources
                ELSE /\ sources' = [sources EXCEPT ![s] = @ \o
                            [i \in 1..Len(r.paths) |->
                                [originalUrl |-> "ignore-config", resolvedPath |-> r.paths[i],
                                 type |-> "directory", policyCount |-> 1]]]
                     /\ pc' = [pc EXCEPT ![s] = "c_exec"]
                     /\ ret' = ret
    /\ UNCHANGED <<tool, param, ws, deferred, fetched, todo, cmds, fnCall, fnOut>>

\* What the process of a command ended with when it did not end well, and
\* what it wrote to stderr.
ExitError == "exit status 1"
Stderr == ""

\* The stdout texts the conftest binary is given to write.
ConftestStdouts ==
    {EmptyOut, GarbageOut, ObjectOut, ArrayOut, ConftestPassOut, ConftestFailOut}

\* executeConftestScan, given what ExecuteCommand returned: the stdout and
\* whether its error is non-nil.  Yields the output and the error.
executeConftestScan(stdout, failed) ==
    IF failed /\ ~(stdout # "" /\ UnmarshalRawOutput(stdout).ok)
    THEN [output |-> stdout,
          err |-> <<"conftest scan failed: ", ExitError, ", stderr: ", Stderr>>]
    ELSE [output |-> stdout, err |-> <<>>]

\* buildConftestCommand, executeConftestScan, parseConftestOutput and the result.
ConftestExecute(s, Stdouts) ==
    /\ pc[s] = "c_exec"
    /\ LET command == buildConftestCommand(param[s].targetFile, sources[s], param[s].namespaces)
       IN  \/ /\ cmds' = [cmds EXCEPT ![s] = Append(@,
                             [dir |-> <<>>, command |-> command, stdout |-> "", failed |-> TRUE])]
              /\ Leave(s, PanicRet)
           \/ \E stdout \in Stdouts, failed \in BOOLEAN :
                LET run == executeConftestScan(stdout, failed)
                    parsed == parseConftestOutput(run.output)
                IN  /\ cmds' = [cmds EXCEPT ![s] = Append(@,
                                   [dir |-> <<>>, command |-> command,
                                    stdout |-> stdout, failed |-> failed])]
                    /\ IF run.err # <<>>
                       THEN Leave(s, ErrRet(<<"conftest execution failed: ">> \o run.err))
                       ELSE IF parsed.err # <<>>
                       THEN Leave(s, ErrRet(<<"output parsing failed: ">> \o parsed.err))
                       ELSE Leave(s, OkRet(ConftestResult(param[s].targetFile, sources[s],
                                                          parsed, run.output)))
    /\ UNCHANGED <<fsys, tool, param, ws, deferred, created, touched, fetched, todo,
                   sources, fnCall, fnOut>>

\* A cleanup written at the end of the function body instead of deferred: it
\* runs on the successful return only.
UnwindOnSuccessOnly(s) ==
    /\ pc[s] = "unwind"
    /\ IF deferred[s] /\ ret[s].kind = "ok"
       THEN /\ fsys' = RemoveAll(fsys, ws[s])
            /\ touched' = [touched EXCEPT ![s] = @ \cup Below(fsys, ws[s])]
       ELSE UNCHANGED <<fsys, touched>>
    /\ pc' = [pc EXCEPT ![s] = "done"]
    /\ UNCHANGED <<tool, param, ws, deferred, created, fetched, todo, sources, cmds,
                   ret, fnCall, fnOut>>

(* --------------------------- deferred cleanup --------------------------- *)
\* The function returns or unwinds: the deferred cleanup, when registered,
\* removes the temp directory.
Unwind(s) ==
    /\ pc[s] = "unwind"
    /\ IF deferred[s]
       THEN /\ fsys' = RemoveAll(fsys, ws[s])
            /\ touched' = [touched EXCEPT ![s] = @ \cup Below(fsys, ws[s])]
       ELSE UNCHANGED <<fsys, touched>>
    /\ pc' = [pc EXCEPT ![s] = "done"]
    /\ UNCHANGED <<tool, param, ws, deferred, created, fetched, todo, sources, cmds,
                   ret, fnCall, fnOut>>

(* ------------------------------- tflint Scan ---------------------------- *)
\* os.Getwd().
Cwd == <<"w">>

\* getDefaultCategory.
getDefaultCategory(category) ==
    IF category = "reusable" \/ category = "example" THEN category ELSE "reusable"

\* getConfigURL.
getConfigURL(category) ==
    IF category = "example"
    THEN "https://raw.githubusercontent.com/Azure/avm-terraform-governance/refs/heads/main/tflint-configs/avm.tflint_example.hcl"
    ELSE "https://raw.githubusercontent.com/Azure/avm-terraform-governance/refs/heads/main/tflint-configs/avm.tflint.hcl"

\* getDefaultTargetPath.
getDefaultTargetPath(targetPath) == IF targetPath = <<>> THEN Cwd ELSE targetPath

\* validateTargetDirectory.
validateTargetDirectory(f, targetPath) ==
    IF ~Exists(f, targetPath) THEN "target directory does not exist"
    ELSE IF ~IsDir(f, targetPath) THEN "target path is not a directory"
    ELSE ""

\* strings.Contains(url, ".git//").
ContainsGitSub(url) ==
    \E i \in 1..(Len(url) - 1) : url[i] = ".git" /\ url[i + 1] = "//"

\* remoteURL up to its first "?".
BeforeQuery(url) ==
    IF \E i \in 1..Len(url) : url[i] = "?"
    THEN SubSeq(url, 1, (CHOOSE i \in 1..Len(url) :
                            url[i] = "?" /\ \A j \in 1..(i - 1) : url[j] # "?") - 1)
    ELSE url

\* The git root heuristic with its subpath test inverted.
GitRootDetectedInverted(remoteURL) ==
    /\ Len(remoteURL) > 0
    /\ remoteURL[1] = "git::"
    /\ ContainsGitSub(BeforeQuery(remoteURL))

\* The git root heuristic of setupRemoteConfig.
GitRootDetected(remoteURL) ==
    /\ Len(remoteURL) > 0
    /\ remoteURL[1] = "git::"
    /\ ~ContainsGitSub(BeforeQuery(remoteURL))

\* The config file of the scan, inside its temp directory.
ConfigPath(s) ==
    Join(ws[s], IF param[s].remoteConfigUrl # <<>> THEN <<"remote.tflint.hcl">>
                ELSE <<"base.tflint.hcl">>)

\* The first test of Scan with its second comparison inverted.
CategoryAndRemoteSetInverted(p) == p.category # "" /\ p.remoteConfigUrl = <<>>

\* The first test of Scan: category and remote_config_url are both set.
CategoryAndRemoteSet(p) == p.category # "" /\ p.remoteConfigUrl # <<>>

\* Scan, up to the config setup.
TflintCall(s, P) ==
    /\ pc[s] = "idle"
    /\ \E p \in P :
        LET targetPath == getDefaultTargetPath(p.targetPath)
            both == CategoryAndRemoteSet(p)
            derr == validateTargetDirectory(fsys, targetPath)
        IN  /\ tool' = [tool EXCEPT ![s] = "tflint"]
            /\ param' = [param EXCEPT ![s] = p]
            /\ touched' = [touched EXCEPT ![s] = IF both THEN @ ELSE @ \cup {targetPath}]
            /\ IF both
               THEN ReturnNow(s, ErrRet(<<"category and remote_config_url are mutually exclusive; set only one">>))
               ELSE IF derr # "" THEN ReturnNow(s, ErrRet(<<derr>>))
               ELSE pc' = [pc EXCEPT ![s] = "t_tempdir"] /\ ret' = ret
    /\ UNCHANGED <<fsys, ws, deferred, created, fetched, todo, sources, cmds, fnCall, fnOut>>

\* setupTempConfigDir, at the head of setupRemoteConfig and of setupConfig.
TflintTempDir(s) ==
    /\ pc[s] = "t_tempdir"
    /\ \/ /\ ReturnNow(s, ErrRet(<<"failed to setup config: failed to create temp directory">>))
          /\ UNCHANGED <<fsys, ws, created, touched>>
       \/ \E d \in TempDirChoices(fsys, <<>>, "tflint-config-") :
            /\ fsys' = MkdirAll(fsys, d)
            /\ ws' = [ws EXCEPT ![s] = d]
            /\ created' = [created EXCEPT ![s] = @ \cup {d}]
            /\ touched' = [touched EXCEPT ![s] = @ \cup {d}]
            /\ pc' = [pc EXCEPT ![s] =
                         IF param[s].remoteConfigUrl # <<>> THEN "t_remote" ELSE "t_download"]
            /\ ret' = ret
    /\ UNCHANGED <<tool, param, deferred, fetched, todo, sources, cmds, fnCall, fnOut>>

\* Scan registers the cleanup once the setup function has returned it.
RegisterCleanup(s) == deferred' = [deferred EXCEPT ![s] = TRUE]

\* The rest of setupRemoteConfig, and Scan's handling of what it returns.
TflintRemoteFetch(s) ==
    /\ pc[s] = "t_remote"
    /\ LET remoteURL == param[s].remoteConfigUrl
           baseConfigPath == Join(ws[s], <<"remote.tflint.hcl">>)
       IN  IF GitRootDetected(remoteURL)
           THEN /\ RegisterCleanup(s)
                /\ Leave(s, ErrRet(<<"failed to setup config: remote_config_url must point to a single file (git repository root detected): ", Concat(remoteURL)>>))
                /\ UNCHANGED <<fsys, created, touched, fetched>>
           ELSE \E o \in GetterOutcomes :
                /\ fetched' = [fetched EXCEPT ![s] = Append(@, Concat(remoteURL))]
                /\ CASE o = "ok" ->
                        /\ fsys' = WriteFile(fsys, baseConfigPath)
                        /\ created' = [created EXCEPT ![s] = @ \cup {baseConfigPath}]
                        /\ touched' = [touched EXCEPT ![s] = @ \cup {baseConfigPath}]
                        /\ RegisterCleanup(s)
                        /\ pc' = [pc EXCEPT ![s] = "t_init"]
                        /\ ret' = ret
                     [] o = "err" ->
                        /\ RegisterCleanup(s)
                        /\ \E e \in GetterErrors(Concat(remoteURL)) :
                             Leave(s, ErrRet(<<"failed to setup config: ",
                                               "failed to fetch remote config: ",
                                               "go-getter GetFile failed: ">> \o e))
                        /\ UNCHANGED <<fsys, created, touched>>
                     [] o = "panic" ->
                        /\ Leave(s, PanicRet)
                        /\ UNCHANGED <<fsys, created, touched, deferred>>
    /\ UNCHANGED <<tool, param, ws, todo, sources, cmds, fnCall, fnOut>>

\* The rest of setupConfig: downloadConfigContent into a directory of its
\* own, removed again when it returns or unwinds, then the write of
\* base.tflint.hcl; and Scan's handling of what setupConfig returns.
TflintCategoryDownload(s) ==
    /\ pc[s] = "t_download"
    /\ LET configURL == getConfigURL(getDefaultCategory(getDefaultCategory(param[s].category)))
           baseConfigPath == Join(ws[s], <<"base.tflint.hcl">>)
       IN
       \/ /\ RegisterCleanup(s)
          /\ Leave(s, ErrRet(<<"failed to setup config: failed to create temp directory">>))
          /\ UNCHANGED <<fsys, created, touched, fetched>>
       \/ \E tempDir \in TempDirChoices(fsys, <<>>, "tflint-download-"), o \in GetterOutcomes :
          \E writeOk \in IF o = "ok" THEN BOOLEAN ELSE {FALSE} :
            LET configFile == Join(tempDir, <<"config.hcl">>)
                got == {tempDir} \cup (IF o = "ok" THEN {configFile} ELSE {})
                wrote == IF writeOk THEN {baseConfigPath} ELSE {}
            IN  /\ fetched' = [fetched EXCEPT ![s] = Append(@, configURL)]
                /\ fsys' = IF writeOk THEN WriteFile(fsys, baseConfigPath) ELSE fsys
                /\ created' = [created EXCEPT ![s] = @ \cup got \cup wrote]
                /\ touched' = [touched EXCEPT ![s] = @ \cup got \cup wrote]
                /\ CASE o = "ok" /\ writeOk ->
                        /\ RegisterCleanup(s)
                        /\ pc' = [pc EXCEPT ![s] = "t_init"]
                        /\ ret' = ret
                     [] o = "ok" /\ ~writeOk ->
                        /\ RegisterCleanup(s)
                        /\ Leave(s, ErrRet(<<"failed to setup config: failed to write base config file">>))
                     [] o = "err" ->
                        /\ RegisterCleanup(s)
                        /\ \E e \in GetterErrors(configURL) :
                             Leave(s, ErrRet(<<"failed to setup config: ",
                                               "failed to download config from ", configURL, ": ",
                                               "go-getter GetFile failed: ">> \o e))
                     [] o = "panic" ->
                        /\ Leave(s, PanicRet)
                        /\ UNCHANGED deferred
    /\ UNCHANGED <<tool, param, ws, todo, sources, cmds, fnCall, fnOut>>

\* executeTFLintInit's command.
InitCommand(configPath) ==
    <<"tflint", " ", "--init", " ", "--config=", PathStr(configPath)>>

\* The --disable-rule flags with the last rule first.
RECURSIVE DisableFlagsReversed(_)
DisableFlagsReversed(ignoredRules) ==
    IF ignoredRules = <<>> THEN <<>>
    ELSE DisableFlagsReversed(Tail(ignoredRules))
         \o <<" ", "--disable-rule=", Head(ignoredRules)>>

\* The --disable-rule flags executeTFLintScan appends, one per ignored rule.
RECURSIVE DisableFlags(_)
DisableFlags(ignoredRules) ==
    IF ignoredRules = <<>> THEN <<>>
    ELSE <<" ", "--disable-rule=", Head(ignoredRules)>> \o DisableFlags(Tail(ignoredRules))

\* executeTFLintScan's command.
ScanCommand(configPath, ignoredRules) ==
    <<"tflint", " ", "--format=json", " ", "--config=", PathStr(configPath)>>
    \o DisableFlags(ignoredRules)

\* What tflint --init writes to stdout.
InitOutput == "Installing plugins"

\* executeTFLintInit with a failure of the init command ignored: the scan
\* command runs all the same.
TflintInitNonFatal(s) ==
    /\ pc[s] = "t_init"
    /\ \E o \in GetterOutcomes :
         /\ cmds' = [cmds EXCEPT ![s] = Append(@,
                        [dir |-> getDefaultTargetPath(param[s].targetPath),
                         command |-> InitCommand(ConfigPath(s)),
                         stdout |-> IF o = "ok" THEN InitOutput ELSE "",
                         failed |-> o # "ok"])]
         /\ CASE o \in {"ok", "err"} -> pc' = [pc EXCEPT ![s] = "t_scan"] /\ ret' = ret
              [] o = "panic" -> Leave(s, PanicRet)
    /\ UNCHANGED <<fsys, tool, param, ws, deferred, created, touched, fetched, todo,
                   sources, fnCall, fnOut>>

\* executeTFLintInit.
TflintInit(s) ==
    /\ pc[s] = "t_init"
    /\ \E o \in GetterOutcomes :
         /\ cmds' = [cmds EXCEPT ![s] = Append(@,
                        [dir |-> getDefaultTargetPath(param[s].targetPath),
                         command |-> InitCommand(ConfigPath(s)),
                         stdout |-> IF o = "ok" THEN InitOutput ELSE "",
                         failed |-> o # "ok"])]
         /\ CASE o = "ok" -> pc' = [pc EXCEPT ![s] = "t_scan"] /\ ret' = ret
              [] o = "err" ->
                 Leave(s, ErrRet(<<"failed to initialize TFLint: ", "tflint init failed: ",
                                   ExitError, ", stderr: ", Stderr>>))
              [] o = "panic" -> Leave(s, PanicRet)
    /\ UNCHANGED <<fsys, tool, param, ws, deferred, created, touched, fetched, todo,
                   sources, fnCall, fnOut>>

\* The stdout texts the tflint binary is given to write on a scan.
TflintStdouts ==
    {EmptyOut, GarbageOut, ArrayOut, TflintCleanOut, TflintKnownOut, TflintNoticeOut}

\* executeTFLintScan taking every error of ExecuteCommand as fatal.
executeTFLintScanStrict(stdout, failed) ==
    IF failed
    THEN [output |-> stdout,
          err |-> <<"tflint scan failed: ", ExitError, ", stderr: ", Stderr>>]
    ELSE [output |-> stdout, err |-> <<>>]

\* executeTFLintScan, given what ExecuteCommand returned: the stdout and
\* whether its error is non-nil.  Yields the output and the error.
executeTFLintScan(stdout, failed) ==
    IF failed /\ ~(stdout # "" /\ UnmarshalOutput(stdout).ok)
    THEN [output |-> stdout,
          err |-> <<"tflint scan failed: ", ExitError, ", stderr: ", Stderr>>]
    ELSE [output |-> stdout, err |-> <<>>]

\* The unsuccessful result Scan returns beside a scan error.
ScanErrorResult(category, targetPath, initOutput, err) ==
    [success |-> FALSE, category |-> category, targetPath |-> targetPath,
     issues |-> <<>>,
     output |-> <<"Init: ", initOutput, "\nScan Error: ">> \o err,
     summary |-> ZeroSummary]

\* executeTFLintScan and parseScanOutput; a failed scan or parse returns an
\* unsuccessful result beside the error.
TflintScanCmd(s, Stdouts) ==
    /\ pc[s] = "t_scan"
    /\ LET category == getDefaultCategory(param[s].category)
           targetPath == getDefaultTargetPath(param[s].targetPath)
           command == ScanCommand(ConfigPath(s), param[s].ignoredRules)
           initOutput == cmds[s][Len(cmds[s])].stdout
       IN  \/ /\ cmds' = [cmds EXCEPT ![s] = Append(@,
                             [dir |-> targetPath, command |-> command,
                              stdout |-> "", failed |-> TRUE])]
              /\ Leave(s, PanicRet)
           \/ \E stdout \in Stdouts, failed \in BOOLEAN :
                LET run == executeTFLintScan(stdout, failed)
                    parsed == parseScanOutput(run.output, category, PathStr(targetPath),
                                              initOutput)
                IN  /\ cmds' = [cmds EXCEPT ![s] = Append(@,
                                   [dir |-> targetPath, command |-> command,
                                    stdout |-> stdout, failed |-> failed])]
                    /\ IF run.err # <<>>
                       THEN Leave(s, ErrRetWith(run.err,
                                ScanErrorResult(category, PathStr(targetPath), initOutput,
                                                run.err)))
                       ELSE IF parsed.err # <<>>
                       THEN Leave(s, ErrRetWith(parsed.err, parsed.result))
                       ELSE Leave(s, OkRet(parsed.result))
    /\ UNCHANGED <<fsys, tool, param, ws, deferred, created, touched, fetched, todo,
                   sources, fnCall, fnOut>>

(* -------------------------------- inputs -------------------------------- *)
SeqsUpTo(S, n) == UNION {[1..k -> S] : k \in 0..n}

\* A namespace that climbs out of the directory it is joined to.
ClimbingNs == <<"x", "/", "..", "/", "..", "/", "evil">>
\* A namespace that climbs into the first conftest temp directory name.
IntrudingNs == <<"x", "/", "..", "/", "..", "/", "conftest-scan-1", "/", "p">>

PolicyUrlInputs == {"u1", "u2"}

\* Ignored policies drawn by the scans.
IgnoredInputs ==
    { [namespace |-> <<"avmsec">>, name |-> "r1"],
      [namespace |-> <<"APRL">>, name |-> "r2"],
      [namespace |-> ClimbingNs, name |-> "r1"],
      [namespace |-> <<>>, name |-> "r1"] }

\* The lists of ignored policies the scans draw: the climbing namespace comes alone.
IgnoredListInputs ==
    {l \in SeqsUpTo(IgnoredInputs, MaxIgnored) :
        (\E i \in 1..Len(l) : l[i].namespace = ClimbingNs) => Len(l) = 1}

ConftestParams ==
    [ alias : {"", "all", "bogus"},
      policyUrls : SeqsUpTo(PolicyUrlInputs, MaxUrls),
      targetFile : {<<>>, PlanFile, PlanDir, MissingPath},
      ignoredPolicies : IgnoredListInputs,
      namespaces : {<<>>},
      includeDefault : BOOLEAN ]

\* Remote config URLs, as tokens.
RemoteUrlInputs ==
    { <<>>,
      <<"https://", "host", "/", "c.tflint.hcl">>,
      <<"git::", "https://", "host", "/", "org", "/", "repo", ".git", "?", "ref=v1">>,
      <<"git::", "https://", "host", "/", "org", "/", "repo", ".git", "//", "c.hcl", "?", "ref=v1">>,
      <<"git::", "https://", "host", "/", "org", "/", "repo", ".git", "?", "p=", "x", ".git", "//", "y">> }

TflintParams ==
    [ category : {"", "reusable", "example", "bogus"},
      remoteConfigUrl : RemoteUrlInputs,
      targetPath : {<<>>, PlanDir, PlanFile, MissingPath},
      ignoredRules : {<<>>, <<"terraform_unused_declarations", "terraform_required_version">>} ]

\* The inputs of two scans running side by side.
ConftestParamsConc ==
    { [alias |-> "aprl", policyUrls |-> <<>>, targetFile |-> PlanFile,
       ignoredPolicies |-> c[1], namespaces |-> <<>>, includeDefault |-> c[2]] :
        c \in { << <<[namespace |-> <<"avmsec">>, name |-> "r1"],
                     [namespace |-> <<"APRL">>, name |-> "r2"]>>, TRUE >>,
                << <<[namespace |-> IntrudingNs, name |-> "r1"]>>, FALSE >> } }

TflintParamsConc ==
    { [category |-> c[1], remoteConfigUrl |-> c[2], targetPath |-> PlanDir,
       ignoredRules |-> <<>>] :
        c \in { << "", <<>> >>,
                << "", <<"https://", "host", "/", "c.tflint.hcl">> >> } }

\* The tool outputs of the scans that run side by side.
ConftestStdoutsConc == {ConftestFailOut}
TflintStdoutsConc == {TflintKnownOut}

\* The inputs of the pure functions.

ValidateInputs ==
    [ alias : {"", "aprl", "avmsec", "all", "bogus"},
      policyUrls : SeqsUpTo(PolicyUrlInputs, MaxUrls),
      targetFile : {<<>>, PlanFile},
      ignoredPolicies : SeqsUpTo([namespace : {<<>>, <<"avmsec">>}, name : {"", "r1"}],
                                 MaxIgnored),
      namespaces : {<<>>},
      includeDefault : {TRUE} ]

(* ------------------------------ behaviours ------------------------------ *)
InitWith(active) ==
    /\ fsys = InitialFs
    /\ pc = [s \in Scans |-> IF s \in active THEN "idle" ELSE "off"]
    /\ tool = [s \in Scans |-> "none"]
    /\ param = [s \in Scans |-> NoParam]
    /\ ws = [s \in Scans |-> <<>>]
    /\ deferred = [s \in Scans |-> FALSE]
    /\ created = [s \in Scans |-> {}]
    /\ touched = [s \in Scans |-> {}]
    /\ fetched = [s \in Scans |-> <<>>]
    /\ todo = [s \in Scans |-> <<>>]
    /\ sources = [s \in Scans |-> <<>>]
    /\ cmds = [s \in Scans |-> <<>>]
    /\ ret = [s \in Scans |-> NoRet]
    /\ fnCall = [fn |-> "none"]
    /\ fnOut = [err |-> ""]

\* The steps of a scan past its call.
Step(s, ConftestOut, TflintOut) ==
    \/ ConftestTempDir(s)
    \/ ConftestDownload(s)
    \/ ConftestDefaultExceptions(s)
    \/ ConftestIgnoreConfig(s)
    \/ ConftestExecute(s, ConftestOut)
    \/ TflintTempDir(s)
    \/ TflintRemoteFetch(s)
    \/ TflintCategoryDownload(s)
    \/ TflintInit(s)
    \/ TflintScanCmd(s, TflintOut)
    \/ Unwind(s)

\* One scan at a time, over the wide inputs.
Init == InitWith({1})

Next ==
    \E s \in Scans :
        \/ ConftestCall(s, ConftestParams)
        \/ TflintCall(s, TflintParams)
        \/ Step(s, ConftestStdouts, TflintStdouts)

Spec == Init /\ [][Next]_vars

\* Two scans side by side.
InitConc == InitWith(Scans)

NextConc ==
    \E s \in Scans :
        \/ ConftestCall(s, ConftestParamsConc)
        \/ TflintCall(s, TflintParamsConc)
        \/ Step(s, ConftestStdoutsConc, TflintStdoutsConc)

SpecConc == InitConc /\ [][NextConc]_vars

\* The pure functions, applied to inputs drawn from their sets.
ApplyValidate ==
    /\ fnCall.fn = "none"
    /\ \E p \in ValidateInputs :
        /\ fnCall' = [fn |-> "Validate", arg |-> p]
        /\ fnOut' = [err |-> Validate(p)]
    /\ UNCHANGED scanVars

ApplyResolvePolicyUrls ==
    /\ fnCall.fn = "none"
    /\ \E a \in {"", "aprl", "avmsec", "all", "bogus"},
          u \in SeqsUpTo(PolicyUrlInputs, MaxUrls) :
        /\ fnCall' = [fn |-> "resolvePolicyUrls", alias |-> a, customUrls |-> u]
        /\ fnOut' = resolvePolicyUrls(a, u)
    /\ UNCHANGED scanVars

\* The URL resolution as Scan performs it: Validate, then the head of
\* resolvePolicySources.
ApplyScanResolution ==
    /\ fnCall.fn = "none"
    /\ \E a \in {"", "aprl", "avmsec", "all", "bogus"},
          u \in SeqsUpTo(PolicyUrlInputs, MaxUrls) :
        LET p == [alias |-> a, policyUrls |-> u, targetFile |-> PlanFile,
                  ignoredPolicies |-> <<>>, namespaces |-> <<>>, includeDefault |-> TRUE]
            verr == Validate(p)
        IN  /\ fnCall' = [fn |-> "resolvePolicySources", alias |-> a, customUrls |-> u]
            /\ fnOut' = IF verr # "" THEN [urls |-> <<>>, err |-> verr] ELSE AllUrls(p)
    /\ UNCHANGED scanVars

(* --------------------------- download timeouts -------------------------- *)
\* Integers wider than the checker's are little-endian sequences of limbs.
\* Wide numbers hold every value the parsing and the multiplication pass
\* through; an int64 is the low Int64Limbs limbs, in two's complement.
Limb == 2^16
WideLimbs == 8
Int64Limbs == 4
Digits == {"0", "1", "2", "3", "4", "5", "6", "7", "8", "9"}
DigitVal(c) == CHOOSE n \in 0..9 : ToString(n) = c

FromNat(n) == [i \in 1..WideLimbs |-> IF i = 1 THEN n ELSE 0]
Zero == FromNat(0)

\* x * m + carry, for a small m.
RECURSIVE MulAdd(_, _, _)
MulAdd(x, m, carry) ==
    IF x = <<>> THEN <<>>
    ELSE LET t == Head(x) * m + carry
         IN  <<t % Limb>> \o MulAdd(Tail(x), m, t \div Limb)

\* The value of a sequence of decimal digits.
RECURSIVE DecimalValue(_, _)
DecimalValue(acc, digits) ==
    IF digits = <<>> THEN acc
    ELSE DecimalValue(MulAdd(acc, 10, DigitVal(Head(digits))), Tail(digits))

\* 2^63, and a wide number being at least 2^63.
TwoTo63 == [i \in 1..WideLimbs |-> IF i = Int64Limbs THEN Limb \div 2 ELSE 0]
AtLeastTwoTo63(x) ==
    \/ x[Int64Limbs] >= Limb \div 2
    \/ \E i \in (Int64Limbs + 1)..WideLimbs : x[i] # 0

\* strconv.Atoi on a 64-bit platform: an optional sign and decimal digits;
\* a syntax error for anything else, a range error outside int64.
Atoi(v) ==
    LET signed == v # <<>> /\ Head(v) \in {"+", "-"}
        digits == IF signed THEN Tail(v) ELSE v
        neg == signed /\ Head(v) = "-"
        mag == DecimalValue(Zero, digits)
    IN  IF digits = <<>> \/ \E i \in 1..Len(digits) : digits[i] \notin Digits
        THEN [ok |-> FALSE, err |-> "invalid syntax", neg |-> FALSE, mag |-> Zero]
        ELSE IF AtLeastTwoTo63(mag) /\ ~(neg /\ mag = TwoTo63)
        THEN [ok |-> FALSE, err |-> "value out of range", neg |-> FALSE, mag |-> Zero]
        ELSE [ok |-> TRUE, err |-> "", neg |-> neg, mag |-> mag]

\* A number of seconds in nanoseconds: times time.Second, unbounded.
Nanoseconds(secs) == MulAdd(MulAdd(MulAdd(secs, 1000, 0), 1000, 0), 1000, 0)

\* The int64 a wide number wraps to: its low 64 bits.
Int64(x) == SubSeq(x, 1, Int64Limbs)
\* The value of an int64 that is not negative, as a wide number.
IsNegative(d) == d[Int64Limbs] >= Limb \div 2
Widen(d) == [i \in 1..WideLimbs |-> IF i <= Int64Limbs THEN d[i] ELSE 0]

DefaultSeconds == 60

\* The timeout both fetchers compute from their environment variable:
\* time.Duration(secs) * time.Second in int64 arithmetic.
DownloadTimeout(v) ==
    LET a == Atoi(v)
    IN  IF v # <<>> /\ a.ok /\ ~a.neg /\ a.mag # Zero
        THEN Int64(Nanoseconds(a.mag))
        ELSE Int64(Nanoseconds(FromNat(DefaultSeconds)))

\* os.Getenv: the empty string for a variable that is not set.
Getenv(env) == IF env.set THEN env.value ELSE <<>>

\* The values of the timeout variables, as characters.
TimeoutEnvInputs ==
    {[set |-> FALSE, value |-> <<>>]} \cup
    { [set |-> TRUE, value |-> v] :
        v \in { <<>>, <<"0">>, <<"-", "5">>, <<"a", "b", "c">>, <<"3", "0">>,
                <<"+", "7">>, <<"0", "3", "0">>, <<" ", "3", "0">>, <<"1", "e", "3">>,
                <<"-">>, <<"3", "6", "0", "0">>,
                <<"9", "2", "2", "3", "3", "7", "2", "0", "3", "6">>,
                <<"9", "2", "2", "3", "3", "7", "2", "0", "3", "7">>,
                <<"1", "8", "4", "4", "6", "7", "4", "4", "0", "7", "4">>,
                <<"9", "2", "2", "3", "3", "7", "2", "0", "3", "6",
                  "8", "5", "4", "7", "7", "5", "8", "0", "7">>,
                <<"9", "2", "2", "3", "3", "7", "2", "0", "3", "6",
                  "8", "5", "4", "7", "7", "5", "8", "0", "8">>,
                <<"9", "9", "9", "9", "9", "9", "9", "9", "9", "9",
                  "9", "9", "9", "9", "9", "9", "9", "9", "9", "9">> } }

\* goGetterImpl.Get up to its context: the timeout of a tflint download
\* under a value of TFLINT_REMOTE_CONFIG_TIMEOUT_SECONDS.
ApplyGetTimeout ==
    /\ fnCall.fn = "none"
    /\ \E env \in TimeoutEnvInputs :
        /\ fnCall' = [fn |-> "goGetterImpl.Get", env |-> env]
        /\ fnOut' = [timeout |-> DownloadTimeout(Getenv(env))]
    /\ UNCHANGED scanVars

\* DownloadPolicy up to its context: the timeout of a conftest download
\* under a value of CONFTEST_POLICY_DOWNLOAD_TIMEOUT_SECONDS.
ApplyDownloadPolicyTimeout ==
    /\ fnCall.fn = "none"
    /\ \E env \in TimeoutEnvInputs :
        /\ fnCall' = [fn |-> "DownloadPolicy", env |-> env]
        /\ fnOut' = [timeout |-> DownloadTimeout(Getenv(env))]
    /\ UNCHANGED scanVars

(* ------------------- ignore config: the files' contents ----------------- *)
\* namespaceRules[namespace] of createIgnoreConfig: the names appended in
\* the order of the list.
RECURSIVE namespaceRules(_, _)
namespaceRules(ignoredPolicies, namespace) ==
    IF ignoredPolicies = <<>> THEN <<>>
    ELSE (IF Head(ignoredPolicies).namespace = namespace
          THEN <<Head(ignoredPolicies).name>> ELSE <<>>)
         \o namespaceRules(Tail(ignoredPolicies), namespace)

\* strings.Join(quotedRules, ", ").
RECURSIVE JoinQuoted(_)
JoinQuoted(rules) ==
    IF rules = <<>> THEN ""
    ELSE "\"" \o Head(rules) \o "\""
         \o (IF Len(rules) > 1 THEN ", " ELSE "") \o JoinQuoted(Tail(rules))

\* generateIgnoreRegoContent: the text of an exception file, as the fixed
\* parts of its format and the two values filled in.
generateIgnoreRegoContent(namespace, rules) ==
    << "package ", Concat(namespace),
       "\n\nimport rego.v1\n\nexception contains rules if {\n    rules = [",
       JoinQuoted(rules), "]\n}" >>

\* The loop of createIgnoreConfig when no I/O fails, over the namespaces in
\* the order the map yields them: the contents of the files by path, a write
\* replacing what the path held, and the directories returned.
RECURSIVE WriteExceptions(_, _, _, _)
WriteExceptions(files, tempDir, ignoredPolicies, order) ==
    IF order = <<>> THEN [files |-> files, paths |-> <<>>]
    ELSE LET namespace == Head(order)
             content == generateIgnoreRegoContent(namespace,
                           namespaceRules(ignoredPolicies, namespace))
             exceptionPath == ExceptionPath(tempDir, namespace)
             written == [q \in DOMAIN files \cup {exceptionPath} |->
                            IF q = exceptionPath THEN content ELSE files[q]]
             rest == WriteExceptions(written, tempDir, ignoredPolicies, Tail(order))
         IN  [files |-> rest.files,
              paths |-> <<NamespaceDir(tempDir, namespace)>> \o rest.paths]

\* A workspace for the exception files, and no file at all.
IgnoreTempDir == <<"tmp", "conftest-scan-1">>
NoFiles == [q \in {} |-> <<>>]

\* The valid ignored policies the exception files are generated from.
ValidIgnoredInputs ==
    [namespace : {<<"avmsec">>, <<"Avmsec">>, <<"APRL">>}, name : {"r1", "r2"}]

\* createIgnoreConfig run twice on one list into fresh workspaces, and a
\* third time into the workspace of the first run; each run ranges over its
\* map in an order of its own.
ApplyCreateIgnoreConfig ==
    /\ fnCall.fn = "none"
    /\ \E l \in SeqsUpTo(ValidIgnoredInputs, MaxIgnored) :
       \E o1, o2 \in Orders(NamespacesOf(l)) :
        LET first == WriteExceptions(NoFiles, IgnoreTempDir, l, o1)
            second == WriteExceptions(NoFiles, IgnoreTempDir, l, o2)
            again == WriteExceptions(first.files, IgnoreTempDir, l, o2)
        IN  /\ fnCall' = [fn |-> "createIgnoreConfig", ignoredPolicies |-> l]
            /\ fnOut' = [first |-> first, second |-> second, again |-> again]
    /\ UNCHANGED scanVars

(* ------------------------- the conftest command ------------------------- *)
\* The namespaces, the policy sources and the plan file a command is built
\* from; one namespace has a space in it.
MaxNamespaces == 2
NamespaceInputs == {<<"main">>, <<"avmsec">>, <<"my", " ", "ns">>}
SourceInputs ==
    { [originalUrl |-> "u1", resolvedPath |-> <<"tmp", "conftest-scan-1", "policy-1">>,
       type |-> "directory", policyCount |-> 1],
      [originalUrl |-> "ignore-config",
       resolvedPath |-> <<"tmp", "conftest-scan-1", "exceptions_avmsec">>,
       type |-> "directory", policyCount |-> 1] }

\* buildConftestCommand, and the split of its command line in ExecuteCommand.
ApplyBuildConftestCommand ==
    /\ fnCall.fn = "none"
    /\ \E namespaces \in SeqsUpTo(NamespaceInputs, MaxNamespaces),
          policySources \in SeqsUpTo(SourceInputs, MaxUrls) :
        LET command == buildConftestCommand(PlanFile, policySources, namespaces)
        IN  /\ fnCall' = [fn |-> "buildConftestCommand", planFile |-> PlanFile,
                          policySources |-> policySources, namespaces |-> namespaces]
            /\ fnOut' = [command |-> command, argv |-> Argv(command)]
    /\ UNCHANGED scanVars

(* ------------------------ the message heuristics ------------------------ *)
\* Messages of conftest failures and warnings, as tokens.
MessageInputs ==
    { <<"plain">>,
      <<"avmsec", "/", "r1", ":", " ", "'", "azurerm_", "storage_account", ".", "sa", "'",
        " must use https">>,
      <<"r1", ":", " ", "no resource">>,
      <<" ", "ns", "/", "sub", "/", "r2", " ", ":", "a", ":", "b">>,
      <<"ns", "/", " ", "r3", ":", " ", "'", "module", ".", "a", ".", "b", "'">>,
      <<"r4", ":", " ", "'", "foo", "'", " and ", "'", "azurerm_", "x", ".", "y", "'">>,
      <<"r5", ":", " ", "'", "my", "azurerm_", "x", ".", "y", "'">>,
      <<"r6", ":", " ", "'", "azurerm_", "x", "'">>,
      <<"r7", ":", " ", "'", "azurerm_", "x", ".", "y">>,
      <<":", "empty rule">>,
      <<"'", "a", ".", "module", ".", "b", "'", " in ", "'", "c", "'">> }

\* The two extractions parseConftestOutput applies to a message.
ApplyExtractFromMessage ==
    /\ fnCall.fn = "none"
    /\ \E message \in MessageInputs :
        /\ fnCall' = [fn |-> "extractFromMessage", message |-> message]
        /\ fnOut' = [rule |-> extractRuleFromMessage(message),
                     resource |-> extractResourceFromMessage(message)]
    /\ UNCHANGED scanVars

InitFn == InitWith({})

NextFn ==
    \/ ApplyValidate
    \/ ApplyResolvePolicyUrls
    \/ ApplyScanResolution
    \/ ApplyGetTimeout
    \/ ApplyDownloadPolicyTimeout
    \/ ApplyCreateIgnoreConfig
    \/ ApplyBuildConftestCommand
    \/ ApplyExtractFromMessage

SpecFn == InitFn /\ [][NextFn]_vars

(* -------------------------------- claims -------------------------------- *)
Returned(s) == pc[s] = "done" /\ ret[s].kind \in {"ok", "error"}
Exited(s) == pc[s] = "done"
IsConftest(s) == tool[s] = "conftest"
IsTflint(s) == tool[s] = "tflint"

\* C1: every conftest Scan that created its conftest-scan temp directory has
\* removed it by the time it is over, whether it returns a result or an error
\* of any later step.
C1_ConftestWorkspaceRemoved ==
    \A s \in Scans :
        (IsConftest(s) /\ Exited(s) /\ ws[s] # <<>>) => ~Exists(fsys, ws[s])

\* C1 witness: a conftest scan that downloaded a policy and then failed in a
\* later step is over.
C1_Witness ==
    \E s \in Scans :
        /\ IsConftest(s) /\ Returned(s) /\ ws[s] # <<>>
        /\ ret[s].kind = "error"
        /\ Len(sources[s]) > 0
        /\ Cardinality(created[s]) > 1

\* C2 (as claimed): every tflint Scan that created its temp config directory
\* has removed it once it is over, on every exit path: return, error, panic.
C2_TflintWorkspaceRemoved ==
    \A s \in Scans :
        (IsTflint(s) /\ Exited(s) /\ ws[s] # <<>>) => ~Exists(fsys, ws[s])

\* C3 (as claimed): every file or directory a scan creates lies inside that
\* scan's one temp directory.
C3_ArtifactsInsideWorkspace ==
    \A s \in Scans :
        \A q \in created[s] : ws[s] # <<>> /\ IsPrefix(ws[s], q)

\* A scan holds its temp directory from its creation until the scan is over.
Live(s) == ws[s] # <<>> /\ pc[s] # "done"

\* C4 (as claimed): two scans side by side hold distinct temp directories,
\* neither creates anything under the directory the other holds, and once
\* both have returned neither directory exists.
C4_DisjointWorkspaces ==
    \A s, t \in Scans :
        s # t =>
            /\ (Live(s) /\ Live(t)) =>
                  /\ ws[s] # ws[t]
                  /\ \A q \in created[s] : ~IsPrefix(ws[t], q)
            /\ (Returned(s) /\ Returned(t) /\ ws[s] # <<>>) => ~Exists(fsys, ws[s])

BothSet(p) == p.category # "" /\ p.remoteConfigUrl # <<>>

\* C5: a tflint Scan called with category and remote_config_url both
\* non-empty returns the mutual-exclusivity error and no result, having
\* fetched nothing, created no temp directory and run no command.
C5_MutualExclusionFirst ==
    \A s \in Scans :
        (IsTflint(s) /\ BothSet(param[s])) =>
            /\ pc[s] = "done"
            /\ ret[s].kind = "error" /\ ~ret[s].hasResult
            /\ Concat(ret[s].err) = "category and remote_config_url are mutually exclusive; set only one"
            /\ ws[s] = <<>>
            /\ created[s] = {}
            /\ fetched[s] = <<>>
            /\ cmds[s] = <<>>

\* C5 witness: such a call has been made.
C5_Witness ==
    \E s \in Scans :
        /\ IsTflint(s) /\ BothSet(param[s]) /\ Exited(s)
        /\ param[s].targetPath = PlanDir

\* The URL starts with git:: and holds no .git// anywhere.
GitRootUrl(url) == Len(url) > 0 /\ url[1] = "git::" /\ ~ContainsGitSub(url)

RootMsg(url) ==
    << "failed to setup config: ",
       "remote_config_url must point to a single file (git repository root detected): ",
       Concat(url) >>

ConftestInvalid(f, p) ==
    \/ p.alias # "" /\ p.policyUrls # <<>>
    \/ p.alias \notin {"", "aprl", "avmsec", "all"}
    \/ p.targetFile = <<>>
    \/ \E i \in 1..Len(p.ignoredPolicies) :
          p.ignoredPolicies[i].namespace = <<>> \/ p.ignoredPolicies[i].name = ""
    \/ p.targetFile \notin DOMAIN f
    \/ f[p.targetFile] = "dir"

\* C7: a conftest Scan whose parameters violate a validation rule returns an
\* error and no result, having created no temp directory, fetched no policy
\* and run no command.
C7_ValidationShortCircuits ==
    \A s \in Scans :
        (IsConftest(s) /\ ConftestInvalid(fsys, param[s])) =>
            /\ pc[s] = "done"
            /\ ret[s].kind = "error"
            /\ ~ret[s].hasResult
            /\ ws[s] = <<>>
            /\ created[s] = {}
            /\ fetched[s] = <<>>
            /\ cmds[s] = <<>>

\* C7 witness: a Scan whose only fault is an ignored policy without namespace
\* has returned.
C7_Witness ==
    \E s \in Scans :
        /\ IsConftest(s) /\ Exited(s)
        /\ param[s].alias = "" /\ param[s].targetFile = PlanFile
        /\ Len(param[s].ignoredPolicies) = 2
        /\ param[s].ignoredPolicies[1].namespace # <<>>
        /\ param[s].ignoredPolicies[2].namespace = <<>>

\* The entries of an ignored_policies list that lack a namespace or a name.
BadEntries(list) ==
    {i \in 1..Len(list) : list[i].namespace = <<>> \/ list[i].name = ""}

\* What validation is claimed to report for an ignored_policies list.
IgnoredPoliciesReport(list) ==
    IF BadEntries(list) = {} THEN ""
    ELSE LET i == CHOOSE k \in BadEntries(list) : \A j \in BadEntries(list) : k <= j
         IN  "ignored_policies[" \o ToString(i - 1) \o "]: "
             \o (IF list[i].namespace = <<>> THEN "namespace is required"
                 ELSE "name is required")

\* The rules Validate tests before it reaches ignored_policies all pass.
ReachesIgnoredPolicies(p) ==
    /\ ~(p.alias # "" /\ p.policyUrls # <<>>)
    /\ p.targetFile # <<>>
    /\ p.alias \in {"", "aprl", "avmsec", "all"}

\* C8: validation of ignored_policies reports the smallest 0-based index whose
\* entry lacks a namespace or a name, naming the namespace when it is empty
\* and the name when only the name is empty, and succeeds when no entry lacks
\* either.
C8_SmallestBadIndex ==
    (fnCall.fn = "Validate" /\ ReachesIgnoredPolicies(fnCall.arg)) =>
        fnOut.err = IgnoredPoliciesReport(fnCall.arg.ignoredPolicies)

\* C8 witness: Validate was given a good entry followed by one with neither
\* namespace nor name.
C8_Witness ==
    /\ fnCall.fn = "Validate" /\ ReachesIgnoredPolicies(fnCall.arg)
    /\ Len(fnCall.arg.ignoredPolicies) = 2
    /\ BadEntries(fnCall.arg.ignoredPolicies) = {2}
    /\ fnCall.arg.ignoredPolicies[2] = [namespace |-> <<>>, name |-> ""]
    /\ fnOut.err = "ignored_policies[1]: namespace is required"

MutualExclusivityErrors ==
    { "predefined_policy_library_alias and custom_urls are mutually exclusive",
      "predefined_policy_library_alias and policy_urls are mutually exclusive" }

\* C9: policy URL resolution gives the APRL URL for aprl, the avmsec URL for
\* avmsec, the APRL URL then the avmsec URL for all and for neither alias nor
\* URLs, the given URLs in their order for URLs without alias, an error for
\* any other alias, and a mutual-exclusivity error for alias with URLs.
C9_ResolutionTable ==
    fnCall.fn \in {"resolvePolicyUrls", "resolvePolicySources"} =>
        LET a == fnCall.alias
            u == fnCall.customUrls
        IN  IF a # "" /\ u # <<>> THEN fnOut.err \in MutualExclusivityErrors
            ELSE IF u # <<>> THEN fnOut = [urls |-> u, err |-> ""]
            ELSE IF a = "aprl" THEN fnOut = [urls |-> <<AprlUrl>>, err |-> ""]
            ELSE IF a = "avmsec" THEN fnOut = [urls |-> <<AvmsecUrl>>, err |-> ""]
            ELSE IF a \in {"all", ""} THEN fnOut = [urls |-> <<AprlUrl, AvmsecUrl>>, err |-> ""]
            ELSE fnOut.err # ""

\* C9 witness: the alias all was resolved as Scan resolves it.
C9_Witness ==
    /\ fnCall.fn = "resolvePolicySources"
    /\ fnCall.alias = "all" /\ fnCall.customUrls = <<>>
    /\ Len(fnOut.urls) = 2

RECURSIVE PFlagValues(_)
\* The values that follow a -p in an argument vector, in order.
PFlagValues(argv) ==
    IF Len(argv) < 2 THEN <<>>
    ELSE IF argv[1] = "-p" THEN <<argv[2]>> \o PFlagValues(SubSeq(argv, 3, Len(argv)))
    ELSE PFlagValues(Tail(argv))

\* The URLs a valid conftest parameter record resolves to.
UrlsOf(p) ==
    IF p.policyUrls # <<>> THEN p.policyUrls
    ELSE IF p.alias = "aprl" THEN <<AprlUrl>>
    ELSE IF p.alias = "avmsec" THEN <<AvmsecUrl>>
    ELSE <<AprlUrl, AvmsecUrl>>

\* C10: in every successful conftest scan policy_sources holds one source per
\* resolved URL in URL order, then the default exceptions source if enabled,
\* then one ignore-config source per ignored namespace, and the -p flags of
\* the command follow policy_sources in the same order.
C10_PolicySourceOrder ==
    \A s \in Scans :
        (IsConftest(s) /\ ret[s].kind = "ok") =>
            LET urls == UrlsOf(param[s])
                n == Len(urls)
                d == IF param[s].includeDefault THEN 1 ELSE 0
                nss == NamespacesOf(param[s].ignoredPolicies)
                k == Cardinality(nss)
                src == sources[s]
            IN  /\ Len(src) = n + d + k
                /\ \A i \in 1..n : src[i].originalUrl = urls[i]
                /\ d = 1 => src[n + 1].originalUrl = DefaultAVMExceptionsURL
                /\ \A i \in (n + d + 1)..(n + d + k) : src[i].originalUrl = "ignore-config"
                /\ {src[i].resolvedPath : i \in (n + d + 1)..(n + d + k)}
                      = {NamespaceDir(ws[s], ns) : ns \in nss}
                /\ Len(cmds[s]) = 1
                /\ PFlagValues(Argv(cmds[s][1].command))
                      = [i \in 1..Len(src) |-> PathStr(src[i].resolvedPath)]

\* C10 witness: a scan with two URLs, the default exceptions and two ignored
\* namespaces has succeeded.
C10_Witness ==
    \E s \in Scans :
        /\ IsConftest(s) /\ Returned(s) /\ ret[s].kind = "ok"
        /\ Len(param[s].policyUrls) = 2
        /\ param[s].policyUrls[1] # param[s].policyUrls[2]
        /\ param[s].includeDefault
        /\ Cardinality(NamespacesOf(param[s].ignoredPolicies)) = 2
        /\ Len(sources[s]) = 5

\* C11: every result conftest Scan returns has total_violations and
\* error_count equal to the number of violations, warning_count equal to the
\* number of warnings, info_count 0 and policies_run equal to the number of
\* policy sources, whatever counts the tool's JSON carries.
C11_ConftestSummaryCounts ==
    \A s \in Scans :
        (IsConftest(s) /\ ret[s].hasResult) =>
            LET r == ret[s].result IN
            /\ r.summary.totalViolations = Len(r.violations)
            /\ r.summary.errorCount = Len(r.violations)
            /\ r.summary.warningCount = Len(r.warnings)
            /\ r.summary.infoCount = 0
            /\ r.summary.policiesRun = Len(r.policySources)

\* C11 witness: a conftest scan returned a result with violations and a
\* warning from JSON that reports one success.
C11_Witness ==
    \E s \in Scans :
        /\ IsConftest(s) /\ Returned(s) /\ ret[s].hasResult
        /\ cmds[s][1].stdout = ConftestFailOut
        /\ Len(ret[s].result.violations) = 2
        /\ Len(ret[s].result.warnings) = 1
        /\ Len(ret[s].result.policySources) = 3

\* C12 (as claimed): every result tflint Scan returns has total_issues equal
\* to error_count + warning_count + info_count, whatever severities the
\* tool's issues carry.
C12_TflintTotalIsSum ==
    \A s \in Scans :
        (IsTflint(s) /\ ret[s].hasResult) =>
            LET m == ret[s].result.summary IN
            m.totalIssues = m.errorCount + m.warningCount + m.infoCount

\* C13 (as claimed): every result conftest Scan returns has total_violations
\* equal to error_count + warning_count + info_count, warnings or not.
C13_ConftestTotalIsSum ==
    \A s \in Scans :
        (IsConftest(s) /\ ret[s].hasResult) =>
            LET m == ret[s].result.summary IN
            m.totalViolations = m.errorCount + m.warningCount + m.infoCount

\* The texts that have the shape of each tool's JSON output.
ConftestShaped == {ArrayOut, ConftestPassOut, ConftestFailOut}
TflintShaped == {ObjectOut, TflintCleanOut, TflintKnownOut, TflintNoticeOut}

\* The scan command of a scan that has run it: what the command runner
\* returned for it.
ScanRun(s) == cmds[s][Len(cmds[s])]
RanScanCommand(s) ==
    /\ Returned(s)
    /\ \/ IsConftest(s) /\ Len(cmds[s]) = 1
       \/ IsTflint(s) /\ Len(cmds[s]) = 2

\* C14: for both tools, when the command runner returns an error on the scan
\* step, Scan succeeds with the findings parsed from the stdout if the stdout
\* is non-empty and has the shape of the tool's JSON, and returns an error
\* otherwise.
C14_NonFatalExactlyOnValidJson ==
    \A s \in Scans :
        (RanScanCommand(s) /\ ScanRun(s).failed) =>
            LET stdout == ScanRun(s).stdout
                shaped == IF IsConftest(s) THEN stdout \in ConftestShaped
                          ELSE stdout \in TflintShaped
            IN  IF stdout # "" /\ shaped
                THEN /\ ret[s].kind = "ok"
                     /\ ret[s].result.success
                     /\ IsConftest(s) =>
                           /\ ret[s].result.violations = parseConftestOutput(stdout).violations
                           /\ ret[s].result.warnings = parseConftestOutput(stdout).warnings
                     /\ IsTflint(s) =>
                           ret[s].result.issues
                              = parseScanOutput(stdout, "", "", "").result.issues
                ELSE ret[s].kind = "error"

\* C14 witness: tflint ended with an error after writing JSON with three
\* findings, and Scan returned them.
C14_Witness ==
    \E s \in Scans :
        /\ IsTflint(s) /\ RanScanCommand(s) /\ ScanRun(s).failed
        /\ ScanRun(s).stdout = TflintKnownOut
        /\ ret[s].kind = "ok"
        /\ Len(ret[s].result.issues) = 3

\* Two scans ran on the same parameters, both returned a result, and the
\* external tool wrote the same for both.
SameRun(s, t) ==
    /\ Returned(s) /\ Returned(t)
    /\ tool[s] = tool[t]
    /\ param[s] = param[t]
    /\ ret[s].hasResult /\ ret[t].hasResult
    /\ Len(cmds[s]) = Len(cmds[t])
    /\ \A i \in 1..Len(cmds[s]) :
          cmds[s][i].stdout = cmds[t][i].stdout /\ cmds[s][i].failed = cmds[t][i].failed

\* The JSON projection of what a scan returned.
Projection(s) ==
    IF IsConftest(s) THEN EncodeConftestResult(ret[s].result)
    ELSE EncodeTflintResult(ret[s].result)

\* The last element of a path.
Base(path) == path[Len(path)]

\* C15: two runs of a scan on the same parameters, with fetches that give the
\* same content and a tool that writes the same output, return results with
\* the same JSON projection, also when two namespaces are ignored.
C15_SameProjection ==
    \A s, t \in Scans :
        SameRun(s, t) =>
            /\ ret[s].kind = ret[t].kind
            /\ Projection(s) = Projection(t)

\* C15 witness: two conftest scans with two ignored namespaces returned a
\* result each, their ignore-config sources in different orders.
C15_Witness ==
    /\ SameRun(1, 2)
    /\ IsConftest(1)
    /\ Cardinality(NamespacesOf(param[1].ignoredPolicies)) = 2
    /\ \E i \in 1..Len(sources[1]) :
          Base(sources[1][i].resolvedPath) # Base(sources[2][i].resolvedPath)

\* The text of the output field of what a scan returned.
OutputText(s) == Concat(ret[s].result.output)

\* C16: for every successful scan result of either tool, feeding the output
\* field of the result back into the tool's parser succeeds and yields the
\* same issues, or violations and warnings, as the result carries.
C16_OutputRoundTrip ==
    \A s \in Scans :
        (Returned(s) /\ ret[s].kind = "ok") =>
            /\ IsConftest(s) =>
                  LET again == parseConftestOutput(OutputText(s)) IN
                  /\ again.err = <<>>
                  /\ again.violations = ret[s].result.violations
                  /\ again.warnings = ret[s].result.warnings
            /\ IsTflint(s) =>
                  LET again == parseScanOutput(OutputText(s), ret[s].result.category,
                                               ret[s].result.targetPath, InitOutput) IN
                  /\ again.err = <<>>
                  /\ again.result.issues = ret[s].result.issues

\* The stdout of a scan command is JSON of the shape the tool's parser takes.
ValidJson(s, stdout) ==
    IF IsConftest(s) THEN UnmarshalRawOutput(stdout).ok ELSE UnmarshalOutput(stdout).ok

\* A text made of parts contains another text: as one of its parts, or
\* because the other text is empty.
Retains(parts, text) == text = "" \/ \E i \in 1..Len(parts) : parts[i] = text

\* The error of a scan is a parse error.
IsParseError(s) ==
    /\ ret[s].kind = "error"
    /\ \E i \in 1..Len(ret[s].err) :
          ret[s].err[i] \in {"failed to parse TFLint output: ",
                             "failed to parse conftest output: "}

\* C17: when the external tool exits successfully but its stdout is not
\* valid JSON, the scan fails with a parse error, carries no issues or
\* violations, and the output field of what is returned retains the raw
\* stdout body.
C17_ParseErrorKeepsStdout ==
    \A s \in Scans :
        (RanScanCommand(s) /\ ~ScanRun(s).failed /\ ~ValidJson(s, ScanRun(s).stdout)) =>
            /\ IsParseError(s)
            /\ ret[s].hasResult
            /\ IF ret[s].hasResult
               THEN /\ Retains(ret[s].result.output, ScanRun(s).stdout)
                    /\ IsTflint(s) => ret[s].result.issues = <<>>
                    /\ IsConftest(s) => /\ ret[s].result.violations = <<>>
                                        /\ ret[s].result.warnings = <<>>
               ELSE FALSE

\* The object keys of an encoding, and how often one of them occurs.
Keys(enc) == {enc[i].v : i \in {j \in 1..Len(enc) : enc[j].k = "key"}}
KeyCount(enc, name) == Cardinality({i \in 1..Len(enc) : enc[i] = JKey(name)})

\* Policy sources with other internal fields: every one resolved to the
\* given path and of the given type.
Relocated(srcs, path, type) ==
    [i \in 1..Len(srcs) |-> [srcs[i] EXCEPT !.resolvedPath = path, !.type = type]]
OtherPaths == {<<"tmp", "elsewhere">>, PlanDir}
OtherTypes == {"file", "directory"}

\* C18: the JSON encoding of a scan result has no key resolved_path or type
\* at any level and has original_url and policy_count for each policy
\* source; results that differ only in the resolved path and type of their
\* policy sources have the same encoding.
C18_InternalFieldsNotEncoded ==
    \A s \in Scans :
        (Returned(s) /\ ret[s].hasResult) =>
            /\ Keys(Projection(s)) \cap {"resolved_path", "type"} = {}
            /\ IsConftest(s) =>
                  LET r == ret[s].result IN
                  /\ KeyCount(Projection(s), "original_url") = Len(r.policySources)
                  /\ KeyCount(Projection(s), "policy_count") = Len(r.policySources)
                  /\ \A path \in OtherPaths, type \in OtherTypes :
                        EncodeConftestResult(
                            [r EXCEPT !.policySources = Relocated(@, path, type)])
                          = EncodeConftestResult(r)

\* C18 witness: a conftest scan returned a result with two policy sources
\* resolved inside its temp directory, which differ from their relocations.
C18_Witness ==
    \E s \in Scans :
        /\ IsConftest(s) /\ Returned(s) /\ ret[s].hasResult
        /\ Len(ret[s].result.policySources) = 2
        /\ \A i \in 1..2 : IsPrefix(ws[s], ret[s].result.policySources[i].resolvedPath)
        /\ \A path \in OtherPaths, type \in OtherTypes :
              Relocated(ret[s].result.policySources, path, type) # ret[s].result.policySources

\* A timeout was computed from a value of its environment variable.
TimeoutCall == fnCall.fn \in {"goGetterImpl.Get", "DownloadPolicy"}

\* The variable holds a decimal integer N > 0 that parses.
HoldsPositive(env) ==
    /\ env.set
    /\ Atoi(env.value).ok /\ ~Atoi(env.value).neg /\ Atoi(env.value).mag # Zero

\* C19: for both fetchers, the timeout applied to a download equals N
\* seconds when the environment variable holds a decimal integer N > 0 of
\* any magnitude that parses, and 60 seconds when the variable is unset,
\* empty, malformed, zero or negative.
C19_TimeoutIsEnvSeconds ==
    TimeoutCall =>
        IF HoldsPositive(fnCall.env)
        THEN /\ ~IsNegative(fnOut.timeout)
             /\ Widen(fnOut.timeout) = Nanoseconds(Atoi(fnCall.env.value).mag)
        ELSE Widen(fnOut.timeout) = Nanoseconds(FromNat(60))

\* A scan returned the error of a failed fetch, and the URL it was fetching.
FetchFailed(s) ==
    /\ Returned(s) /\ ret[s].kind = "error"
    /\ fetched[s] # <<>>
    /\ \E i \in 1..Len(ret[s].err) :
          ret[s].err[i] \in {"go-getter GetAny failed for URL ", "go-getter GetFile failed: "}
FetchedUrl(s) == fetched[s][Len(fetched[s])]

\* C20: whenever a remote fetch fails during a scan (tflint remote config,
\* tflint category config, conftest policy URL, default AVM exceptions), the
\* error Scan returns carries the URL that was being fetched, for any error
\* of the getter, also one that does not mention the URL.
C20_FetchErrorCarriesUrl ==
    \A s \in Scans :
        FetchFailed(s) => \E i \in 1..Len(ret[s].err) : ret[s].err[i] = FetchedUrl(s)

\* The target directory of a tflint scan, after the default.
TargetDir(s) == getDefaultTargetPath(param[s].targetPath)

\* The flag and the --config path of a tflint command line.
FlagOf(command) == command[3]
ConfigOf(command) == SubSeq(command, 5, 6)

\* C21: in every tflint Scan the scan command (tflint --format=json) is
\* executed only after the init command (tflint --init) has returned without
\* error, both in the target directory and with the same --config path; if
\* init fails, the scan command is never executed and Scan returns an error
\* with no result.
C21_InitBeforeScan ==
    \A s \in Scans :
        IsTflint(s) =>
            /\ Len(cmds[s]) <= 2
            /\ Len(cmds[s]) >= 1 =>
                  /\ FlagOf(cmds[s][1].command) = "--init"
                  /\ cmds[s][1].dir = TargetDir(s)
                  /\ cmds[s][1].failed =>
                        /\ Len(cmds[s]) = 1
                        /\ pc[s] # "t_scan"
                        /\ Returned(s) => ret[s].kind = "error" /\ ~ret[s].hasResult
            /\ Len(cmds[s]) = 2 =>
                  /\ ~cmds[s][1].failed
                  /\ FlagOf(cmds[s][2].command) = "--format=json"
                  /\ cmds[s][2].dir = TargetDir(s)
                  /\ ConfigOf(cmds[s][2].command) = ConfigOf(cmds[s][1].command)
                  /\ ConfigOf(cmds[s][2].command)[1] = "--config="

\* C21 witness: a tflint scan whose init command failed has returned its
\* error, with the init command the only one it ran.
C21_Witness ==
    \E s \in Scans :
        /\ IsTflint(s) /\ Returned(s)
        /\ Len(cmds[s]) = 1 /\ cmds[s][1].failed
        /\ ret[s].kind = "error"

\* createIgnoreConfig was run on a list of ignored policies.
IgnoreCall == fnCall.fn = "createIgnoreConfig"

\* The names of the policies of a namespace, in the order of the list, and
\* the text of a rules list of them.
NamesIn(l, ns) ==
    LET at == SelectSeq([i \in 1..Len(l) |-> i], LAMBDA i : l[i].namespace = ns)
    IN  [k \in 1..Len(at) |-> l[at[k]].name]
RulesText(names) ==
    IF names = <<>> THEN ""
    ELSE IF Len(names) = 1 THEN "\"" \o names[1] \o "\""
    ELSE IF Len(names) = 2 THEN "\"" \o names[1] \o "\", \"" \o names[2] \o "\""
    ELSE "\"" \o names[1] \o "\", \"" \o names[2] \o "\", \"" \o names[3] \o "\""

\* The exception file of a namespace in a workspace:
\* exceptions_<lower(ns)>/exceptions_<lower(ns)>.rego.
ExceptionFile(ns) ==
    IgnoreTempDir \o << Concat(<<"exceptions_">> \o ToLower(ns)),
                        Concat(<<"exceptions_">> \o ToLower(ns) \o <<".rego">>) >>

\* C22: after createIgnoreConfig succeeds on valid ignored policies, every
\* distinct namespace ns of the input has a file
\* exceptions_<lower(ns)>/exceptions_<lower(ns)>.rego declaring package ns
\* whose rules list is the names of the input policies of ns in input order,
\* and the returned directories are as many as the distinct namespaces and
\* all different; also for namespaces that differ only in letter case.
C22_ExceptionFilePerNamespace ==
    IgnoreCall =>
        LET l == fnCall.ignoredPolicies
            r == fnOut.first
        IN  /\ \A ns \in NamespacesOf(l) :
                  /\ ExceptionFile(ns) \in DOMAIN r.files
                  /\ r.files[ExceptionFile(ns)][2] = Concat(ns)
                  /\ r.files[ExceptionFile(ns)][4] = RulesText(NamesIn(l, ns))
            /\ Len(r.paths) = Cardinality(NamespacesOf(l))
            /\ \A i, j \in 1..Len(r.paths) : i # j => r.paths[i] # r.paths[j]

\* C23: running createIgnoreConfig twice on the same list of ignored
\* policies, into fresh workspaces or twice into the same one, produces the
\* same exception file names with byte-identical contents.
C23_SameExceptionFiles ==
    IgnoreCall =>
        /\ fnOut.second.files = fnOut.first.files
        /\ fnOut.again.files = fnOut.first.files

\* Where the default exceptions URL occurs among the fetches of a scan and
\* among its sources.
DefaultFetches(s) == {i \in 1..Len(fetched[s]) : fetched[s][i] = DefaultAVMExceptionsURL}
DefaultSources(s) ==
    {i \in 1..Len(sources[s]) : sources[s][i].originalUrl = DefaultAVMExceptionsURL}

\* C24: when include_default_avm_exceptions is true, the default exceptions
\* URL is fetched only after every policy URL fetch succeeded, into the
\* default_exceptions subdirectory of the workspace, and one source with
\* policy_count 1 is added; if that fetch fails the scan returns an error
\* and conftest is never invoked; when the flag is false the URL is never
\* fetched and no such source appears.
C24_DefaultExceptionsLast ==
    \A s \in Scans :
        IsConftest(s) =>
            LET urls == AllUrls(param[s]).urls
                n == Len(urls)
            IN  /\ ~param[s].includeDefault =>
                      DefaultFetches(s) = {} /\ DefaultSources(s) = {}
                /\ DefaultSources(s) # {} => DefaultFetches(s) # {}
                /\ DefaultFetches(s) # {} =>
                      /\ param[s].includeDefault
                      /\ DefaultFetches(s) = {n + 1}
                      /\ SubSeq(fetched[s], 1, n) = urls
                      /\ Len(sources[s]) >= n
                      /\ \A i \in 1..n : sources[s][i].originalUrl = urls[i]
                      /\ \A q \in created[s] :
                            (\E i \in 1..Len(q) : q[i] = "avmsec_exceptions.rego") =>
                                q = ws[s] \o <<"default_exceptions", "avmsec_exceptions.rego">>
                      /\ DefaultSources(s) \subseteq {n + 1}
                      /\ \A i \in DefaultSources(s) :
                            /\ sources[s][i].resolvedPath = ws[s] \o <<"default_exceptions">>
                            /\ sources[s][i].policyCount = 1
                      /\ (DefaultSources(s) = {} /\ Exited(s)) =>
                            /\ ret[s].kind \in {"error", "panic"}
                            /\ cmds[s] = <<>>
                      /\ (DefaultSources(s) = {} /\ Returned(s)) =>
                            ret[s].kind = "error" /\ ~ret[s].hasResult

\* C24 witness: a conftest scan fetched its policy URLs, then failed to
\* fetch the default exceptions, and has returned.
C24_Witness ==
    \E s \in Scans :
        /\ IsConftest(s) /\ Returned(s)
        /\ param[s].includeDefault
        /\ Len(fetched[s]) >= 2
        /\ DefaultFetches(s) # {} /\ DefaultSources(s) = {}

\* The names of the files a tflint scan writes.
TflintFileNames == {"remote.tflint.hcl", "base.tflint.hcl", "config.hcl"}

\* C25: the tflint scan command is tflint --format=json --config=<cfg>
\* followed by exactly one --disable-rule=<id> per entry of ignored_rules, in
\* input order and with nothing else; the init command has no --disable-rule
\* flag; and ignored_rules cause no file to be created or modified.
C25_DisableRuleFlags ==
    \A s \in Scans :
        IsTflint(s) =>
            LET rules == param[s].ignoredRules IN
            /\ Len(cmds[s]) >= 1 =>
                  \A i \in 1..Len(cmds[s][1].command) :
                      cmds[s][1].command[i] # "--disable-rule="
            /\ Len(cmds[s]) = 2 =>
                  LET c == cmds[s][2].command IN
                  /\ Len(c) = 6 + 3 * Len(rules)
                  /\ SubSeq(c, 1, 5) = <<"tflint", " ", "--format=json", " ", "--config=">>
                  /\ c[6] = PathStr(ConfigPath(s))
                  /\ \A i \in 1..Len(rules) :
                        SubSeq(c, 4 + 3 * i, 6 + 3 * i) = <<" ", "--disable-rule=", rules[i]>>
            /\ \A q \in created[s] :
                  /\ IsPrefix(TmpRoot, q)
                  /\ Len(q) = Len(TmpRoot) + 1 \/ Base(q) \in TflintFileNames
            /\ \A q \in DOMAIN InitialFs : q \in DOMAIN fsys /\ fsys[q] = InitialFs[q]

\* C25 witness: a tflint scan with two ignored rules ran both commands and
\* returned a result.
C25_Witness ==
    \E s \in Scans :
        /\ IsTflint(s) /\ Returned(s) /\ ret[s].kind = "ok"
        /\ Len(param[s].ignoredRules) = 2
        /\ Len(cmds[s]) = 2

\* A conftest command was built.
CommandCall == fnCall.fn = "buildConftestCommand"

\* The text of the namespace flags and of the policy flags, as stated.
RECURSIVE NamespaceText(_)
NamespaceText(namespaces) ==
    IF namespaces = <<>> THEN ""
    ELSE " --namespace " \o Concat(Head(namespaces)) \o NamespaceText(Tail(namespaces))
RECURSIVE PolicyText(_)
PolicyText(policySources) ==
    IF policySources = <<>> THEN ""
    ELSE " -p " \o PathStr(Head(policySources).resolvedPath)
         \o PolicyText(Tail(policySources))

\* An argument vector has a given argument.
HasArg(argv, arg) == \E i \in 1..Len(argv) : argv[i] = arg

\* C26: the conftest command is conftest test --no-color -o json, then
\* --all-namespaces when namespaces is empty or else one --namespace <n> per
\* entry in input order, then one -p <resolved_path> per policy source, then
\* the target file last; exactly one of the two namespace forms is present.
C26_ConftestCommandShape ==
    CommandCall =>
        /\ Concat(fnOut.command)
              = "conftest test --no-color -o json"
                \o (IF fnCall.namespaces = <<>> THEN " --all-namespaces"
                    ELSE NamespaceText(fnCall.namespaces))
                \o PolicyText(fnCall.policySources)
                \o " " \o PathStr(fnCall.planFile)
        /\ fnOut.argv[Len(fnOut.argv)] = PathStr(fnCall.planFile)
        /\ HasArg(fnOut.argv, "--all-namespaces") # HasArg(fnOut.argv, "--namespace")
        /\ HasArg(fnOut.argv, "--all-namespaces") = (fnCall.namespaces = <<>>)

\* C26 witness: a command was built for two different namespaces and two
\* policy sources.
C26_Witness ==
    /\ CommandCall
    /\ Len(fnCall.namespaces) = 2 /\ fnCall.namespaces[1] # fnCall.namespaces[2]
    /\ Len(fnCall.policySources) = 2

\* The tokens buildConftestCommand composes, each value one token.
RECURSIVE NamespaceTokens(_)
NamespaceTokens(namespaces) ==
    IF namespaces = <<>> THEN <<>>
    ELSE <<"--namespace", Concat(Head(namespaces))>> \o NamespaceTokens(Tail(namespaces))
RECURSIVE PolicyTokens(_)
PolicyTokens(policySources) ==
    IF policySources = <<>> THEN <<>>
    ELSE <<"-p", PathStr(Head(policySources).resolvedPath)>>
         \o PolicyTokens(Tail(policySources))
ComposedTokens(planFile, policySources, namespaces) ==
    <<"conftest", "test", "--no-color", "-o", "json">>
    \o (IF namespaces = <<>> THEN <<"--all-namespaces">> ELSE NamespaceTokens(namespaces))
    \o PolicyTokens(policySources)
    \o <<PathStr(planFile)>>

\* C30: the argument vector RealCommandExecutor hands to the external binary
\* equals the token list the scanner composed: splitting the space-joined
\* command on whitespace gives back the composed tokens, also for values
\* that contain whitespace.
C30_ArgvIsComposedTokens ==
    CommandCall =>
        fnOut.argv = ComposedTokens(fnCall.planFile, fnCall.policySources, fnCall.namespaces)

\* The heuristics were applied to a message.
ExtractCall == fnCall.fn = "extractFromMessage"

\* The positions of the single quotes of a message, and its quoted tokens:
\* what lies between the first and the second quote, the third and the
\* fourth, and so on.
QuotesOf(message) == {i \in 1..Len(message) : message[i] = "'"}
QuoteRank(message, i) == Cardinality({j \in QuotesOf(message) : j <= i})
QuotedTokens(message) ==
    { SubSeq(message, i + 1, j - 1) :
        <<i, j>> \in { p \in QuotesOf(message) \X QuotesOf(message) :
                          /\ QuoteRank(message, p[1]) % 2 = 1
                          /\ QuoteRank(message, p[2]) = QuoteRank(message, p[1]) + 1 } }

\* A quoted token names a resource: it contains "." and starts with
\* azurerm_ or module.
NamesResource(tok) ==
    /\ \E i \in 1..Len(tok) : tok[i] = "."
    /\ tok # <<>>
    /\ \/ tok[1] = "azurerm_"
       \/ Len(tok) >= 2 /\ tok[1] = "module" /\ tok[2] = "."

\* C27: for every conftest message, the extracted resource is a
\* single-quoted token of the message whose value contains "." and starts
\* with azurerm_ or module., whenever the message has such a token at any
\* position among its quoted tokens; otherwise the resource is empty.
C27_ResourceIsQuotedToken ==
    ExtractCall =>
        LET named == {tok \in QuotedTokens(fnCall.message) : NamesResource(tok)} IN
        IF named # {}
        THEN fnOut.resource \in {Concat(tok) : tok \in named}
        ELSE fnOut.resource = ""

\* The part of a message before its first colon, a text without the spaces
\* around it, and the part of a text after its last slash (the whole text
\* when it has none).
Colons(message) == {i \in 1..Len(message) : message[i] = ":"}
BeforeColon(message) ==
    SubSeq(message, 1, (CHOOSE i \in Colons(message) : \A j \in Colons(message) : i <= j) - 1)
Stripped(toks) ==
    LET solid == {i \in 1..Len(toks) : toks[i] # " "} IN
    IF solid = {} THEN <<>>
    ELSE SubSeq(toks, CHOOSE i \in solid : \A j \in solid : i <= j,
                      CHOOSE i \in solid : \A j \in solid : i >= j)
AfterLastSlash(toks) ==
    LET slashes == {i \in 1..Len(toks) : toks[i] = "/"} IN
    IF slashes = {} THEN toks
    ELSE SubSeq(toks, (CHOOSE i \in slashes : \A j \in slashes : i >= j) + 1, Len(toks))

\* C28 as stated: for every conftest message, the extracted rule is
\* "unknown" when the message has no colon; otherwise it is the substring
\* before the first colon, reduced to the tail after its last slash when it
\* contains one.
C28_RuleIsTextBeforeColon ==
    ExtractCall =>
        IF Colons(fnCall.message) = {} THEN fnOut.rule = "unknown"
        ELSE fnOut.rule = Concat(AfterLastSlash(BeforeColon(fnCall.message)))

\* C28, amended: the substring before the first colon is first stripped of
\* the whitespace around it, then reduced to the tail after its last slash;
\* the rule is "unknown" when the message has no colon, and a message
\* without a rule does not fail the parse.
C28_RuleIsTrimmedTextBeforeColon ==
    /\ ExtractCall =>
          IF Colons(fnCall.message) = {} THEN fnOut.rule = "unknown"
          ELSE fnOut.rule = Concat(AfterLastSlash(Stripped(BeforeColon(fnCall.message))))
    /\ LET parsed == parseConftestOutput(ConftestFailOut) IN
          /\ parsed.err = <<>>
          /\ \E i \in 1..Len(parsed.violations) :
                parsed.violations[i].message = "plain" /\ parsed.violations[i].rule = "unknown"

\* C28 witness: the rule was extracted from a message with spaces around
\* the text before its colon and two slashes in it.
C28_Witness ==
    /\ ExtractCall
    /\ fnCall.message[1] = " "
    /\ Cardinality({i \in 1..Len(BeforeColon(fnCall.message)) :
                        BeforeColon(fnCall.message)[i] = "/"}) = 2
    /\ fnOut.rule = "r2"

\* The spellings of the severity error in the tool outputs.
ErrorSpellings == {"error", "ERROR", "Error"}

\* C29: parseScanOutput returns the tool's issues in their order followed by
\* the tool's top-level errors in their order, each error as an issue with
\* rule tflint_error and severity error; total_issues is the sum of both
\* lengths, and error_count is the number of issues whose severity is error
\* in any letter case plus the number of top-level errors.
C29_IssuesThenErrors ==
    \A s \in Scans :
        (IsTflint(s) /\ RanScanCommand(s) /\ ret[s].kind = "ok") =>
            LET raw == UnmarshalOutput(ScanRun(s).stdout).value
                r == ret[s].result
                n == Len(raw.issues)
                m == Len(raw.errors)
            IN  /\ Len(r.issues) = n + m
                /\ \A i \in 1..n :
                      r.issues[i] = [rule |-> raw.issues[i].name,
                                     severity |-> raw.issues[i].severity,
                                     message |-> raw.issues[i].message,
                                     range |-> raw.issues[i].range]
                /\ \A j \in 1..m :
                      r.issues[n + j] = [rule |-> "tflint_error", severity |-> "error",
                                         message |-> raw.errors[j].message,
                                         range |-> raw.errors[j].range]
                /\ r.summary.totalIssues = n + m
                /\ r.summary.errorCount
                      = Cardinality({i \in 1..n : raw.issues[i].severity \in ErrorSpellings}) + m

\* C29 witness: a tflint scan returned the result of an output with an
\* ERROR issue, a warning issue and a top-level error.
C29_Witness ==
    \E s \in Scans :
        /\ IsTflint(s) /\ RanScanCommand(s) /\ ret[s].kind = "ok"
        /\ ScanRun(s).stdout = TflintKnownOut
        /\ Len(ret[s].result.issues) = 3
        /\ ret[s].result.issues[1].severity = "ERROR"
        /\ ret[s].result.summary.errorCount = 2
====
